---------------------------- MODULE Spec2Model ----------------------------
(***************************************************************************)
(* A model of the user-level IPC library (lib/ipc.c, two revisions), of    *)
(* spawn/init_stack (lib/spawn.c) and of the kernel services they call.    *)
(*                                                                         *)
(* Spec     : NSenders environments in ipc_send against one environment in *)
(*            ipc_recv, interleaved at system-call granularity.            *)
(* FairSpec : Spec under a fair scheduler (every runnable loop step of an  *)
(*            environment is eventually taken).                            *)
(* SpawnSpec: one call of spawn, every substrate call may fail.            *)
(***************************************************************************)
EXTENDS Integers, Sequences, FiniteSets, TLC

(***************************************************************************)
(* Bounds of the model.                                                    *)
(***************************************************************************)
NSenders == 2
\* program headers in an image, arguments in an argv
MaxPh == 2
MaxArgc == 2
\* the physical pages of the machine
NPages == 3

(***************************************************************************)
(* Program constants (inc/mmu.h, inc/memlayout.h, inc/error.h, inc/env.h). *)
(***************************************************************************)
PGSIZE == 4096
PTE_P == 1
PTE_W == 2
PTE_U == 4
E_BAD_ENV == 2
E_INVAL == 3
E_NO_MEM == 4
E_IPC_NOT_RECV == 7
ENV_RUNNABLE == 1
ENV_NOT_RUNNABLE == 2
\* 0x464C457F
ELF_MAGIC == 1179403647
ELF_PROG_LOAD == 1
ELF_PROG_FLAG_WRITE == 2

(***************************************************************************)
(* 32-bit unsigned words (uint32_t, uintptr_t, void* ): TLC's integers are  *)
(* 32-bit signed, so a word is kept as its page number (the upper 20 bits) *)
(* and its page offset (the lower 12 bits).  int and int32_t values are    *)
(* integers.                                                               *)
(***************************************************************************)
Pow2(n) == 2 ^ n
W(hi, lo) == [hi |-> hi, lo |-> lo]
ULt(a, b) == a.hi < b.hi \/ (a.hi = b.hi /\ a.lo < b.lo)
PGOFF(a) == a.lo
\* (int32_t) of a 32-bit word: two's complement
ToInt32(v) ==
  IF v.hi >= Pow2(19) THEN (v.hi - Pow2(20)) * PGSIZE + v.lo ELSE v.hi * PGSIZE + v.lo
\* (uint32_t) of an int32_t
ToUint32(i) ==
  IF i < 0 THEN W(Pow2(19) + (((i + Pow2(30)) + Pow2(30)) \div PGSIZE),
                 ((i + Pow2(30)) + Pow2(30)) % PGSIZE)
  ELSE W(i \div PGSIZE, i % PGSIZE)
HasBit(x, b) == (x \div b) % 2 = 1
\* w + n (n an int of either sign), modulo 2^32
WAdd(w, n) ==
  LET t == w.lo + n
  IN W((w.hi + (t \div PGSIZE)) % Pow2(20), t % PGSIZE)
\* ROUNDDOWN(w, 4)
WRoundDown4(w) == W(w.hi, w.lo - (w.lo % 4))
\* ROUNDDOWN / ROUNDUP (inc/types.h) on file offsets and sizes
ROUNDDOWN(a, n) == a - (a % n)
ROUNDUP(a, n) == ROUNDDOWN(a + n - 1, n)
NULL == W(0, 0)
\* 0xeec00000
UTOP == W(977920, 0)
\* 0x00400000
UTEMP == W(1024, 0)
\* 0xeebfe000
USTACKTOP == W(977918, 0)

(***************************************************************************)
(* The environments and the inputs the callers choose.                     *)
(***************************************************************************)
Senders == 1 .. NSenders
\* envid of sender s is s; the receiving environment and an id of no environment
RecvEnv == NSenders + 1
BadEnv == NSenders + 2
\* page slots of the receiver: a page-aligned one and one that is not
RSlot == W(2, 0)
RSlotOdd == W(2, 4)
\* a page mapped in every sender
SPage == W(3, 0)
NoSendArgs == [to_env |-> RecvEnv, val |-> W(0, 0), pg |-> NULL, perm |-> 0]
\* the calls of ipc_send: a value alone (with and without stray permission
\* bits), a value with a page, a page with permissions the kernel rejects,
\* and a target that is no environment
SendArgs ==
  { [to_env |-> RecvEnv, val |-> W(0, 5), pg |-> NULL, perm |-> 0],
    [to_env |-> RecvEnv, val |-> W(Pow2(19), 5), pg |-> NULL, perm |-> PTE_U + PTE_P],
    [to_env |-> RecvEnv, val |-> W(Pow2(19), 5), pg |-> SPage, perm |-> PTE_U + PTE_P],
    [to_env |-> RecvEnv, val |-> W(0, 5), pg |-> SPage, perm |-> 0],
    [to_env |-> BadEnv, val |-> W(0, 5), pg |-> NULL, perm |-> 0] }
\* the calls of ipc_recv: no page slot, a page slot, a misaligned page slot,
\* with both, one or none of the two output pointers
RecvArgs ==
  { [pg |-> NULL, from_env_store |-> TRUE, perm_store |-> TRUE],
    [pg |-> NULL, from_env_store |-> FALSE, perm_store |-> FALSE],
    [pg |-> RSlot, from_env_store |-> TRUE, perm_store |-> FALSE],
    [pg |-> RSlot, from_env_store |-> FALSE, perm_store |-> TRUE],
    [pg |-> RSlotOdd, from_env_store |-> TRUE, perm_store |-> TRUE],
    [pg |-> RSlotOdd, from_env_store |-> FALSE, perm_store |-> FALSE] }
NoRecvArgs == [pg |-> NULL, from_env_store |-> FALSE, perm_store |-> FALSE]

VARIABLES
  impl,          \* which revision of ipc_recv the receiver runs
  participants,  \* the senders that ever call ipc_send (1 .. k)
  env,           \* the receiver's struct Env (IPC fields and status)
  rpc,           \* receiver: position in ipc_recv
  rargs,         \* receiver: arguments of the current ipc_recv
  recv_arg,      \* receiver: the dstva handed to sys_ipc_recv (<<>> before the call)
  rerr,          \* receiver: local err
  from_out,      \* receiver: *from_env_store (<<>> while not written)
  perm_out,      \* receiver: *perm_store (<<>> while not written)
  rret,          \* receiver: value returned by ipc_recv (<<>> before the return)
  value_read,    \* receiver: env->env_ipc_value was read in this call
  spc,           \* sender s: position in ipc_send
  sargs,         \* sender s: arguments of the current ipc_send
  serr,          \* sender s: local err
  nsucc,         \* sender s: try-sends of the current call that returned >= 0
  try_srcva,     \* sender s: srcva of the last sys_ipc_try_send (<<>> before it)
  inflight,      \* history: messages delivered by try-send and not yet returned by ipc_recv
  sp,            \* spawn: its position and locals (r, fdnum, child, child_tf, ph, i) and result
  argv,          \* spawn: the lengths of the argument strings
  elf_buf,       \* spawn: the header prefix read from the image (<<>> before the read)
  fd_pos,        \* spawn: the file position of the open image
  utemp,         \* spawn: the page mapped at UTEMP in the parent (<<>> when none)
  child_env,     \* spawn: the child environment (<<>> before sys_exofork made it)
  ops,           \* history: the substrate calls spawn made, with their results
  mon,           \* monitor: its position, the line read, and what runcmd did with it
  pp_ref,        \* kernel: the reference count of each physical page
  page_free_list \* kernel: the free physical pages, head first

recvVars == <<env, rpc, rargs, recv_arg, rerr, from_out, perm_out, rret, value_read>>
sendVars == <<spc, sargs, serr, nsucc, try_srcva>>
ipcVars == <<impl, participants, recvVars, sendVars, inflight>>
spawnVars == <<sp, argv, elf_buf, fd_pos, utemp, child_env, ops>>
monVars == <<mon, pp_ref, page_free_list>>
vars == <<ipcVars, spawnVars, monVars>>

(***************************************************************************)
(* Kernel: the IPC system calls (kern/syscall.c).                          *)
(***************************************************************************)
\* sys_ipc_recv(dstva): the error it returns at once, or 0 when it blocks
SysIpcRecvErr(dstva) ==
  IF ULt(dstva, UTOP) /\ PGOFF(dstva) # 0 THEN 0 - E_INVAL ELSE 0

\* a page may be sent from srcva with perm
SrcPageOk(srcva, perm) ==
  /\ PGOFF(srcva) = 0
  /\ HasBit(perm, PTE_U) /\ HasBit(perm, PTE_P)
  /\ srcva = SPage

\* a try-send that does not look at the receiving flag
SysIpcTrySendErrNoFlag(to, srcva, perm) ==
  IF to # RecvEnv THEN 0 - E_BAD_ENV
  ELSE IF ULt(srcva, UTOP) /\ ~SrcPageOk(srcva, perm) THEN 0 - E_INVAL
  ELSE 0

\* sys_ipc_try_send(to, val, srcva, perm): its result
SysIpcTrySendErr(to, srcva, perm) ==
  IF to # RecvEnv THEN 0 - E_BAD_ENV
  ELSE IF ~env.env_ipc_recving THEN 0 - E_IPC_NOT_RECV
  ELSE IF ULt(srcva, UTOP) /\ ~SrcPageOk(srcva, perm) THEN 0 - E_INVAL
  ELSE 0

\* the page is transferred when both sides name an address below UTOP
PageTransferred(srcva) == ULt(srcva, UTOP) /\ ULt(env.env_ipc_dstva, UTOP)

\* the receiver's Env after a successful sys_ipc_try_send by s
SysIpcTrySendEnv(s, val, srcva, perm) ==
  [env EXCEPT !.env_ipc_recving = FALSE,
              !.env_ipc_from = s,
              !.env_ipc_value = val,
              !.env_ipc_perm = IF PageTransferred(srcva) THEN perm ELSE 0,
              !.env_status = ENV_RUNNABLE]

(***************************************************************************)
(* lib/ipc.c: ipc_recv                                                     *)
(***************************************************************************)
\* the argument of sys_ipc_recv, revision src/unnamed/part_001
RecvDstvaPart001(pg) == IF pg = NULL THEN UTOP ELSE pg
\* the argument of sys_ipc_recv, revision src/lab4/lib/ipc.c
RecvDstvaLab4(pg) == IF pg # NULL THEN UTOP ELSE pg
RecvDstva(im, pg) == IF im = "lab4" THEN RecvDstvaLab4(pg) ELSE RecvDstvaPart001(pg)

\* a store that forgets the failure case
StoreOutNoErrCheck(supplied, err, field) ==
  IF supplied THEN <<field>> ELSE <<>>

\* what is stored through from_env_store / perm_store (<<>>: no store)
StoreOut(supplied, err, field) ==
  IF supplied THEN (IF err < 0 THEN <<0>> ELSE <<field>>) ELSE <<>>

\* a return that hands back the system call's result on every path
RecvRetErrOnly(err, value) == err

\* the value ipc_recv returns (int32_t)
RecvRet(err, value) == IF err < 0 THEN err ELSE ToInt32(value)

(***************************************************************************)
(* lib/ipc.c: ipc_send                                                     *)
(***************************************************************************)
\* an ipc_send that hands pg to the system call as it is
SendSrcvaRaw(pg) == pg

\* the page argument of sys_ipc_try_send
SendSrcva(pg) == IF pg # NULL THEN pg ELSE UTOP

\* a loop that retries on every error
SendAfterTryNoPanic(err) == IF err < 0 THEN "yield" ELSE "done"

\* a loop whose condition is <= 0: a delivered message counts as a failure
SendAfterTryZeroFails(err) ==
  IF err <= 0 THEN (IF err # 0 - E_IPC_NOT_RECV THEN "panic" ELSE "yield")
  ELSE "done"

\* where ipc_send goes after a try-send returned err
SendAfterTry(err) ==
  IF err < 0 THEN (IF err # 0 - E_IPC_NOT_RECV THEN "panic" ELSE "yield")
  ELSE "done"

\* ipc_recv reads env->env_ipc_value only on the success path
RecvReadsValue(err) == ~(err < 0)

\* the record of a delivery: what try-send by s put into the receiver
Delivery(s, val, srcva, perm) ==
  [from |-> s, val |-> val,
   perm |-> IF PageTransferred(srcva) THEN perm ELSE 0,
   mapped_at |-> IF PageTransferred(srcva) THEN <<env.env_ipc_dstva>> ELSE <<>>]

(***************************************************************************)
(* Initial state of the IPC system: nobody has called anything yet.        *)
(***************************************************************************)
IpcInit ==
  /\ impl \in {"lab4", "part_001"}
  /\ participants \in {1 .. k : k \in Senders}
  /\ env = [env_ipc_recving |-> FALSE, env_ipc_dstva |-> UTOP, env_ipc_from |-> 0,
            env_ipc_value |-> W(0, 0), env_ipc_perm |-> 0, env_status |-> ENV_RUNNABLE]
  /\ rpc = "idle"
  /\ rargs = NoRecvArgs
  /\ recv_arg = <<>>
  /\ rerr = 0
  /\ from_out = <<>>
  /\ perm_out = <<>>
  /\ rret = <<>>
  /\ value_read = FALSE
  /\ spc = [s \in Senders |-> "idle"]
  /\ sargs = [s \in Senders |-> NoSendArgs]
  /\ serr = [s \in Senders |-> 0]
  /\ nsucc = [s \in Senders |-> 0]
  /\ try_srcva = [s \in Senders |-> <<>>]
  /\ inflight = <<>>

(***************************************************************************)
(* The receiver: ipc_recv(from_env_store, pg, perm_store).                 *)
(***************************************************************************)
\* the receiver calls ipc_recv; the message of its previous call is consumed
IpcRecvCall(a) ==
  /\ rpc \in {"idle", "done"}
  /\ rpc' = "sys"
  /\ rargs' = a
  /\ recv_arg' = <<>>
  /\ rerr' = 0
  /\ from_out' = <<>>
  /\ perm_out' = <<>>
  /\ rret' = <<>>
  /\ value_read' = FALSE
  /\ inflight' = IF rpc = "done" /\ ~(rerr < 0) /\ Len(inflight) > 0
                 THEN Tail(inflight) ELSE inflight
  /\ UNCHANGED <<monVars, spawnVars, impl, participants, env, sendVars>>

\* err = sys_ipc_recv(...): fails at once, or marks the env receiving and blocks
SysIpcRecv ==
  /\ rpc = "sys"
  /\ LET dstva == RecvDstva(impl, rargs.pg)
         e == SysIpcRecvErr(dstva)
     IN /\ recv_arg' = <<dstva>>
        /\ IF e < 0
           THEN /\ rerr' = e
                /\ rpc' = "from"
                /\ env' = env
           ELSE /\ rerr' = rerr
                /\ rpc' = "blocked"
                /\ env' = [env EXCEPT !.env_ipc_recving = TRUE,
                                      !.env_ipc_dstva = dstva,
                                      !.env_status = ENV_NOT_RUNNABLE]
  /\ UNCHANGED <<monVars, spawnVars, impl, participants, rargs, from_out, perm_out, rret, value_read,
                 sendVars, inflight>>

\* a sender made the receiver runnable again: sys_ipc_recv returns 0
SysIpcRecvReturn ==
  /\ rpc = "blocked"
  /\ env.env_status = ENV_RUNNABLE
  /\ rerr' = 0
  /\ rpc' = "from"
  /\ UNCHANGED <<monVars, spawnVars, impl, participants, env, rargs, recv_arg, from_out, perm_out, rret,
                 value_read, sendVars, inflight>>

\* if (from_env_store != NULL) ...
IpcRecvStoreFrom ==
  /\ rpc = "from"
  /\ from_out' = StoreOut(rargs.from_env_store, rerr, env.env_ipc_from)
  /\ rpc' = "perm"
  /\ UNCHANGED <<monVars, spawnVars, impl, participants, env, rargs, recv_arg, rerr, perm_out, rret,
                 value_read, sendVars, inflight>>

\* if (perm_store != NULL) ...
IpcRecvStorePerm ==
  /\ rpc = "perm"
  /\ perm_out' = StoreOut(rargs.perm_store, rerr, env.env_ipc_perm)
  /\ rpc' = "ret"
  /\ UNCHANGED <<monVars, spawnVars, impl, participants, env, rargs, recv_arg, rerr, from_out, rret,
                 value_read, sendVars, inflight>>

\* return err or env->env_ipc_value
IpcRecvReturn ==
  /\ rpc = "ret"
  /\ rret' = <<RecvRet(rerr, env.env_ipc_value)>>
  /\ value_read' = RecvReadsValue(rerr)
  /\ rpc' = "done"
  /\ UNCHANGED <<monVars, spawnVars, impl, participants, env, rargs, recv_arg, rerr, from_out, perm_out,
                 sendVars, inflight>>

(***************************************************************************)
(* A sender: ipc_send(to_env, val, pg, perm).                              *)
(***************************************************************************)
IpcSendCall(s, a) ==
  /\ s \in participants
  /\ spc[s] \in {"idle", "done"}
  /\ spc' = [spc EXCEPT ![s] = "try"]
  /\ sargs' = [sargs EXCEPT ![s] = a]
  /\ serr' = [serr EXCEPT ![s] = 0]
  /\ nsucc' = [nsucc EXCEPT ![s] = 0]
  /\ try_srcva' = [try_srcva EXCEPT ![s] = <<>>]
  /\ UNCHANGED <<monVars, spawnVars, impl, participants, recvVars, inflight>>

\* the loop condition: err = sys_ipc_try_send(...), and the branch on err
IpcSendTry(s) ==
  /\ spc[s] = "try"
  /\ LET a == sargs[s]
         srcva == SendSrcva(a.pg)
         e == SysIpcTrySendErr(a.to_env, srcva, a.perm)
         next == SendAfterTry(e)
     IN /\ serr' = [serr EXCEPT ![s] = e]
        /\ spc' = [spc EXCEPT ![s] = next]
        \* the frame of ipc_send is gone once it returned; a panic stops in it
        /\ try_srcva' = [try_srcva EXCEPT ![s] = IF next = "done" THEN <<>> ELSE <<srcva>>]
        /\ sargs' = [sargs EXCEPT ![s] = IF next = "done" THEN NoSendArgs ELSE a]
        /\ IF e < 0
           THEN UNCHANGED <<env, inflight, nsucc>>
           ELSE /\ env' = SysIpcTrySendEnv(s, a.val, srcva, a.perm)
                /\ inflight' = Append(inflight, Delivery(s, a.val, srcva, a.perm))
                /\ nsucc' = [nsucc EXCEPT ![s] = IF @ < 2 THEN @ + 1 ELSE @]
  /\ UNCHANGED <<monVars, spawnVars, impl, participants, rpc, rargs, recv_arg, rerr, from_out, perm_out,
                 rret, value_read>>

\* sys_yield(), then the loop condition again (which assigns err before any
\* read of it: the old err and the old system-call argument are dead)
IpcSendYield(s) ==
  /\ spc[s] = "yield"
  /\ spc' = [spc EXCEPT ![s] = "try"]
  /\ serr' = [serr EXCEPT ![s] = 0]
  /\ try_srcva' = [try_srcva EXCEPT ![s] = <<>>]
  /\ UNCHANGED <<monVars, spawnVars, impl, participants, recvVars, sargs, nsucc, inflight>>

RecvStep ==
  \/ SysIpcRecv
  \/ SysIpcRecvReturn
  \/ IpcRecvStoreFrom
  \/ IpcRecvStorePerm
  \/ IpcRecvReturn

SendStep(s) ==
  \/ IpcSendTry(s)
  \/ IpcSendYield(s)

(***************************************************************************)
(* lib/spawn.c.  The image is known through its header prefix: the magic   *)
(* number, the entry point and the program headers.  File offsets, sizes   *)
(* and segment addresses are below 2^31 and kept as integers; addresses    *)
(* handed to the kernel are 32-bit words.                                  *)
(***************************************************************************)
\* the loadable segments the images are built from, each with
\* PGOFF(p_offset) = PGOFF(p_va): text of two pages, text at an unaligned
\* offset, data whose file part ends in mid-page followed by bss, data whose
\* file part ends on a page boundary, data at an unaligned offset; and a
\* header that is not loadable
SegText2 ==
  [p_type |-> ELF_PROG_LOAD, p_flags |-> 5, p_offset |-> PGSIZE, p_va |-> 2048 * PGSIZE,
   p_filesz |-> PGSIZE + 100, p_memsz |-> PGSIZE + 100]
SegTextOdd ==
  [p_type |-> ELF_PROG_LOAD, p_flags |-> 5, p_offset |-> 3 * PGSIZE + 32,
   p_va |-> 2051 * PGSIZE + 32, p_filesz |-> 100, p_memsz |-> 100]
SegDataMid ==
  [p_type |-> ELF_PROG_LOAD, p_flags |-> 6, p_offset |-> 4 * PGSIZE, p_va |-> 2052 * PGSIZE,
   p_filesz |-> 100, p_memsz |-> PGSIZE + 100]
SegDataEdge ==
  [p_type |-> ELF_PROG_LOAD, p_flags |-> 6, p_offset |-> 6 * PGSIZE, p_va |-> 2054 * PGSIZE,
   p_filesz |-> PGSIZE, p_memsz |-> 2 * PGSIZE]
SegDataOdd ==
  [p_type |-> ELF_PROG_LOAD, p_flags |-> 6, p_offset |-> 8 * PGSIZE + 32,
   p_va |-> 2056 * PGSIZE + 32, p_filesz |-> 100, p_memsz |-> 200]
SegNote ==
  [p_type |-> 4, p_flags |-> 4, p_offset |-> 9 * PGSIZE, p_va |-> 0,
   p_filesz |-> 32, p_memsz |-> 32]
Segs == {SegText2, SegTextOdd, SegDataMid, SegDataEdge, SegDataOdd, SegNote}

SeqsUpTo(S, n) == UNION {[1 .. k -> S] : k \in 0 .. n}
EntryPoint == 2048 * PGSIZE + 32
\* what the first 512 bytes of an image can hold
Headers ==
  {[e_magic |-> ELF_MAGIC, e_entry |-> EntryPoint, phs |-> q] : q \in SeqsUpTo(Segs, MaxPh)}
    \cup {[e_magic |-> 0, e_entry |-> EntryPoint, phs |-> <<>>]}
\* the lengths of argument strings: short, the longest single string that
\* fits in the page with its array and two words, the shortest that does
\* not, and one longer than the distance from address 0 to the end of the
\* scratch page
StrLens == {5, PGSIZE - 17, PGSIZE - 16, 1025 * PGSIZE + 15}
Argvs == SeqsUpTo(StrLens, MaxArgc)

\* what a failing substrate call returns
FailCodes == {0 - E_INVAL, 0 - E_NO_MEM}
\* the results of a substrate call that returns ok on success
Results(ok) == {ok} \cup FailCodes
\* the file descriptor open returns, the id sys_exofork returns
FdNum == 0
ChildId == PGSIZE + 1
\* the trapframe sys_exofork gives the child: a copy of the parent's
ParentTf == [tf_eip |-> 2048 * PGSIZE + 64, tf_esp |-> WAdd(USTACKTOP, 0 - 64)]

(***************************************************************************)
(* init_stack: the layout of the stack page.                               *)
(***************************************************************************)
RECURSIVE SumLens(_)
\* string_size: the sum of strlen(argv[i]) + 1
SumLens(q) == IF q = <<>> THEN 0 ELSE (Head(q) + 1) + SumLens(Tail(q))

\* a translation that leaves the parent's address as it is
UTEMP2USTACKNone(addr) == addr

UTEMP2USTACK(addr) ==
  LET off == (addr.hi - UTEMP.hi) * PGSIZE + addr.lo
  IN WAdd(WAdd(USTACKTOP, 0 - PGSIZE), off)

StringStore(av) == WAdd(WAdd(UTEMP, PGSIZE), 0 - SumLens(av))
ArgvStore(av) == WAdd(WRoundDown4(StringStore(av)), 0 - 4 * (Len(av) + 1))
\* the check that everything fits in one page
StackFits(av) == ~ULt(WAdd(ArgvStore(av), 0 - 8), UTEMP)

\* the parent address at which string i is stored
StringAt(av, i) == WAdd(StringStore(av), SumLens(SubSeq(av, 1, i - 1)))

\* the address is in the page mapped at UTEMP
InScratch(a) == ~ULt(a, UTEMP) /\ ULt(a, WAdd(UTEMP, PGSIZE))
\* all the stores of init_stack go to the page mapped at UTEMP
WritesInPage(av) ==
  /\ InScratch(WAdd(ArgvStore(av), 0 - 8))
  /\ InScratch(ArgvStore(av))
  /\ Len(av) > 0 => InScratch(StringStore(av))

\* the words init_stack stores, by their offset in the page: argv_store[i],
\* argv_store[argc] = 0, argv_store[-1] and argv_store[-2]
StackWords(av) ==
  LET base == PGOFF(ArgvStore(av))
  IN [o \in {base - 8, base - 4} \cup {base + 4 * i : i \in 0 .. Len(av)} |->
        IF o = base - 8 THEN ToUint32(Len(av))
        ELSE IF o = base - 4 THEN UTEMP2USTACK(ArgvStore(av))
        ELSE IF o = base + 4 * Len(av) THEN NULL
        ELSE UTEMP2USTACK(StringAt(av, ((o - base) \div 4) + 1))]

\* the stack page as init_stack fills it
StackImage(av) ==
  [kind |-> "stack",
   strings |-> [i \in 1 .. Len(av) |-> [at |-> StringAt(av, i), len |-> av[i] + 1]],
   argv_store |-> ArgvStore(av),
   argv |-> [i \in 1 .. Len(av) + 1 |->
               IF i <= Len(av) THEN UTEMP2USTACK(StringAt(av, i)) ELSE NULL],
   argv_word |-> UTEMP2USTACK(ArgvStore(av)),
   argc_word |-> Len(av),
   words |-> StackWords(av)]

InitEsp(av) == UTEMP2USTACK(WAdd(ArgvStore(av), 0 - 8))

(***************************************************************************)
(* spawn: the segment loop.                                                *)
(***************************************************************************)
IsLoad(ph) == ph.p_type = ELF_PROG_LOAD
IsText(ph) == ~HasBit(ph.p_flags, ELF_PROG_FLAG_WRITE)
SegStart(ph) == ROUNDDOWN(ph.p_offset, PGSIZE)
SegVa(ph) == ROUNDDOWN(ph.p_va, PGSIZE)
SegEnd(ph) ==
  IF IsText(ph) THEN ROUNDUP(ph.p_filesz + ph.p_offset, PGSIZE)
  ELSE ROUNDUP(ph.p_memsz + ph.p_offset, PGSIZE)
SegLimit(ph) == ph.p_offset + ph.p_filesz
\* the child address of the page of file offset i
PageVa(ph, i) == ToUint32(SegVa(ph) + i - SegStart(ph))

RECURSIVE EnterPh(_, _)
\* for (; ph < eph; ph++): where spawn goes with program header k next
EnterPh(phs, k) ==
  IF k > Len(phs) THEN [pc |-> "set_trapframe", ph |-> k, i |-> 0]
  ELSE IF ~IsLoad(phs[k]) THEN EnterPh(phs, k + 1)
  ELSE IF IsText(phs[k])
       THEN (IF SegStart(phs[k]) < SegEnd(phs[k])
             THEN [pc |-> "read_map", ph |-> k, i |-> SegStart(phs[k])]
             ELSE EnterPh(phs, k + 1))
       ELSE [pc |-> "seek", ph |-> k, i |-> SegStart(phs[k])]

\* after seek: the first test of the loop over the pages of a data segment
AfterSeek(phs, k) ==
  IF SegStart(phs[k]) < SegEnd(phs[k])
  THEN [pc |-> "page_alloc", ph |-> k, i |-> SegStart(phs[k])]
  ELSE EnterPh(phs, k + 1)

\* a loop that leaves a segment after its first page
AfterPageFirstOnly(phs, k, i) == EnterPh(phs, k + 1)

\* i += PGSIZE and the loop test, after the page of offset i is in the child
AfterPage(phs, k, i) ==
  IF i + PGSIZE < SegEnd(phs[k])
  THEN [pc |-> IF IsText(phs[k]) THEN "read_map" ELSE "page_alloc",
        ph |-> k, i |-> i + PGSIZE]
  ELSE EnterPh(phs, k + 1)

\* the data page after read(fdnum, UTEMP, PGSIZE) at file position pos and
\* the memset of the tail: len bytes of the file from pos on, then zeros
DataPage(ph, i, pos) ==
  [kind |-> "anon", from |-> pos,
   len |-> IF i = ROUNDDOWN(SegLimit(ph), PGSIZE) THEN SegLimit(ph) - i ELSE PGSIZE]
ZeroPage == [kind |-> "anon", from |-> 0, len |-> 0]
\* a read_map that hands back a private copy of the block
BlkPageCopy(i) == [kind |-> "anon", from |-> i, len |-> PGSIZE]

\* the block-cache page read_map returns for file offset i
BlkPage(i) == [kind |-> "blk", from |-> i, len |-> PGSIZE]

SpawnInit ==
  /\ sp = [pc |-> "open", r |-> 0, fdnum |-> 0, child |-> 0, child_tf |-> ParentTf,
           ph |-> 0, i |-> 0, ret |-> <<>>]
  /\ argv \in Argvs
  /\ elf_buf = <<>>
  /\ fd_pos = 0
  /\ utemp = <<>>
  /\ child_env = <<>>
  /\ ops = <<>>

\* spawn is not running
SpawnIdle ==
  /\ sp = [pc |-> "idle", r |-> 0, fdnum |-> 0, child |-> 0, child_tf |-> ParentTf,
           ph |-> 0, i |-> 0, ret |-> <<>>]
  /\ argv = <<>>
  /\ elf_buf = <<>>
  /\ fd_pos = 0
  /\ utemp = <<>>
  /\ child_env = <<>>
  /\ ops = <<>>

\* the physical page sys_page_alloc hands out: one that is in use nowhere,
\* named by the number of the allocation
FreshId == Cardinality({k \in 1 .. Len(ops) : ops[k].op = "sys_page_alloc" /\ ops[k].r >= 0}) + 1
\* the contents of a page together with the physical page that holds them
WithId(page, id) ==
  [f \in DOMAIN page \cup {"id"} |-> IF f = "id" THEN id ELSE page[f]]

Log(op, r) == ops' = Append(ops, [op |-> op, r |-> r])
\* return r from spawn
Return(r) == sp' = [sp EXCEPT !.pc = "done", !.r = r, !.ret = <<r>>]
Goto(l) == sp' = [sp EXCEPT !.pc = l.pc, !.ph = l.ph, !.i = l.i]
MapInChild(va, page, perm) ==
  child_env' = [child_env EXCEPT
    !.pgdir = {m \in @ : m.va # va} \cup {[va |-> va, page |-> page, perm |-> perm]}]

\* fdnum = open(prog, O_RDWR); if (fdnum < 0) return fdnum;
SpawnOpen ==
  /\ sp.pc = "open"
  /\ \E r \in Results(FdNum) :
       /\ Log("open", r)
       /\ IF r < 0 THEN Return(r)
          ELSE sp' = [sp EXCEPT !.pc = "read", !.fdnum = r]
  /\ UNCHANGED <<monVars, ipcVars, argv, elf_buf, fd_pos, utemp, child_env>>

\* read(fdnum, elf_buf, 512): the result is not looked at; after a failed
\* read elf_buf is uninitialized memory and can hold anything
SpawnReadHeader ==
  /\ sp.pc = "read"
  /\ \E r \in Results(512), h \in Headers :
       /\ Log("read", r)
       /\ elf_buf' = h
       /\ fd_pos' = IF r < 0 THEN fd_pos ELSE fd_pos + r
  /\ sp' = [sp EXCEPT !.pc = "magic"]
  /\ UNCHANGED <<monVars, ipcVars, argv, utemp, child_env>>

\* if (ELFHDR->e_magic != ELF_MAGIC) panic(...)
SpawnCheckMagic ==
  /\ sp.pc = "magic"
  /\ sp' = [sp EXCEPT !.pc = IF elf_buf.e_magic # ELF_MAGIC THEN "panic" ELSE "exofork"]
  /\ UNCHANGED <<monVars, ipcVars, argv, elf_buf, fd_pos, utemp, child_env, ops>>

\* child = sys_exofork(); child_tf = envs[ENVX(child)].env_tf; tf_eip = e_entry
SpawnExofork ==
  /\ sp.pc = "exofork"
  /\ \E r \in Results(ChildId) :
       /\ Log("sys_exofork", r)
       /\ IF r < 0 THEN Return(r) /\ UNCHANGED child_env
          ELSE /\ child_env' = [env_status |-> ENV_NOT_RUNNABLE, env_tf |-> ParentTf,
                                pgdir |-> {}]
               /\ sp' = [sp EXCEPT !.pc = "init_stack", !.child = r,
                                   !.child_tf = [ParentTf EXCEPT !.tf_eip = elf_buf.e_entry]]
  /\ UNCHANGED <<monVars, ipcVars, argv, elf_buf, fd_pos, utemp>>

\* init_stack: the sizes and the check that the stack fits in a page
InitStackFit ==
  /\ sp.pc = "init_stack"
  /\ IF StackFits(argv) THEN sp' = [sp EXCEPT !.pc = "stack_alloc"]
     ELSE Return(0 - E_NO_MEM)
  /\ UNCHANGED <<monVars, ipcVars, argv, elf_buf, fd_pos, utemp, child_env, ops>>

\* sys_page_alloc(0, UTEMP, PTE_P|PTE_U|PTE_W)
InitStackAlloc ==
  /\ sp.pc = "stack_alloc"
  /\ \E r \in Results(0) :
       /\ Log("sys_page_alloc", r)
       /\ IF r < 0 THEN Return(r) /\ UNCHANGED utemp
          ELSE /\ utemp' = <<[kind |-> "stack", id |-> FreshId]>>
               /\ sp' = [sp EXCEPT !.pc = "stack_write", !.r = r]
  /\ UNCHANGED <<monVars, ipcVars, argv, elf_buf, fd_pos, child_env>>

\* an init_stack that maps the page before it has written anything to it
InitStackWriteNothing ==
  /\ sp.pc = "stack_write"
  /\ sp' = IF WritesInPage(argv)
           THEN [sp EXCEPT !.pc = "stack_map", !.child_tf.tf_esp = InitEsp(argv)]
           ELSE [sp EXCEPT !.pc = "wild_write"]
  /\ UNCHANGED <<monVars, ipcVars, argv, elf_buf, fd_pos, utemp, child_env, ops>>

\* the strings, argv_store[], the argv and argc words, *init_esp; a store
\* outside the page at UTEMP is a page fault or overwrites other memory of
\* the parent: init_stack does not go on as intended
InitStackWrite ==
  /\ sp.pc = "stack_write"
  /\ IF WritesInPage(argv)
     THEN /\ utemp' = <<WithId(StackImage(argv), utemp[1].id)>>
          /\ sp' = [sp EXCEPT !.pc = "stack_map", !.child_tf.tf_esp = InitEsp(argv)]
     ELSE /\ utemp' = utemp
          /\ sp' = [sp EXCEPT !.pc = "wild_write"]
  /\ UNCHANGED <<monVars, ipcVars, argv, elf_buf, fd_pos, child_env, ops>>

\* sys_page_map(0, UTEMP, child, USTACKTOP - PGSIZE, PTE_P|PTE_U|PTE_W)
InitStackMap ==
  /\ sp.pc = "stack_map"
  /\ \E r \in Results(0) :
       /\ Log("sys_page_map", r)
       /\ IF r < 0 THEN sp' = [sp EXCEPT !.pc = "stack_error", !.r = r] /\ UNCHANGED child_env
          ELSE /\ MapInChild(WAdd(USTACKTOP, 0 - PGSIZE), utemp[1], PTE_P + PTE_U + PTE_W)
               /\ sp' = [sp EXCEPT !.pc = "stack_unmap", !.r = r]
  /\ UNCHANGED <<monVars, ipcVars, argv, elf_buf, fd_pos, utemp>>

\* sys_page_unmap(0, UTEMP); return 0; and spawn goes on to the segments
InitStackUnmap ==
  /\ sp.pc = "stack_unmap"
  /\ \E r \in Results(0) :
       /\ Log("sys_page_unmap", r)
       /\ IF r < 0 THEN sp' = [sp EXCEPT !.pc = "stack_error", !.r = r] /\ UNCHANGED utemp
          ELSE /\ utemp' = <<>>
               /\ LET l == EnterPh(elf_buf.phs, 1)
                  IN sp' = [sp EXCEPT !.pc = l.pc, !.ph = l.ph, !.i = l.i, !.r = 0]
  /\ UNCHANGED <<monVars, ipcVars, argv, elf_buf, fd_pos, child_env>>

\* an error path that returns what its cleanup returned
InitStackErrorCleanupResult ==
  /\ sp.pc = "stack_error"
  /\ \E r \in Results(0) :
       /\ Log("cleanup_unmap", r)
       /\ utemp' = IF r < 0 THEN utemp ELSE <<>>
       /\ Return(r)
  /\ UNCHANGED <<monVars, ipcVars, argv, elf_buf, fd_pos, child_env>>

\* error: sys_page_unmap(0, UTEMP); return r;
InitStackError ==
  /\ sp.pc = "stack_error"
  /\ \E r \in Results(0) :
       /\ Log("cleanup_unmap", r)
       /\ utemp' = IF r < 0 THEN utemp ELSE <<>>
  /\ Return(sp.r)
  /\ UNCHANGED <<monVars, ipcVars, argv, elf_buf, fd_pos, child_env>>

\* r = read_map(fdnum, i, &blk)
SpawnReadMap ==
  /\ sp.pc = "read_map"
  /\ \E r \in Results(0) :
       /\ Log("read_map", r)
       /\ IF r < 0 THEN Return(r)
          ELSE sp' = [sp EXCEPT !.pc = "text_map", !.r = r]
  /\ UNCHANGED <<monVars, ipcVars, argv, elf_buf, fd_pos, utemp, child_env>>

\* r = sys_page_map(0, blk, child, va + i - start, PTE_U | PTE_P)
SpawnTextMap ==
  /\ sp.pc = "text_map"
  /\ LET ph == elf_buf.phs[sp.ph]
     IN \E r \in Results(0) :
          /\ Log("sys_page_map", r)
          /\ IF r < 0 THEN Return(r) /\ UNCHANGED child_env
             ELSE /\ MapInChild(PageVa(ph, sp.i), BlkPage(sp.i), PTE_U + PTE_P)
                  /\ Goto(AfterPage(elf_buf.phs, sp.ph, sp.i))
  /\ UNCHANGED <<monVars, ipcVars, argv, elf_buf, fd_pos, utemp>>

\* seek(fdnum, ph->p_offset): the result is not looked at
SpawnSeek ==
  /\ sp.pc = "seek"
  /\ \E r \in Results(0) :
       /\ Log("seek", r)
       /\ fd_pos' = IF r < 0 THEN fd_pos ELSE elf_buf.phs[sp.ph].p_offset
  /\ Goto(AfterSeek(elf_buf.phs, sp.ph))
  /\ UNCHANGED <<monVars, ipcVars, argv, elf_buf, utemp, child_env>>

\* r = sys_page_alloc(0, UTEMP, PTE_U | PTE_W | PTE_P); memset(UTEMP, 0, PGSIZE)
SpawnPageAlloc ==
  /\ sp.pc = "page_alloc"
  /\ \E r \in Results(0) :
       /\ Log("sys_page_alloc", r)
       /\ IF r < 0 THEN Return(r) /\ UNCHANGED utemp
          ELSE /\ utemp' = <<WithId(ZeroPage, FreshId)>>
               /\ sp' = [sp EXCEPT !.r = r,
                    !.pc = IF sp.i < SegLimit(elf_buf.phs[sp.ph]) THEN "data_read" ELSE "data_map"]
  /\ UNCHANGED <<monVars, ipcVars, argv, elf_buf, fd_pos, child_env>>

\* r = read(fdnum, UTEMP, PGSIZE), and the memset of the tail of the last
\* page of file data
SpawnDataRead ==
  /\ sp.pc = "data_read"
  /\ \E r \in Results(PGSIZE) :
       /\ Log("read", r)
       /\ IF r < 0 THEN Return(r) /\ UNCHANGED <<utemp, fd_pos>>
          ELSE /\ utemp' = <<WithId(DataPage(elf_buf.phs[sp.ph], sp.i, fd_pos), utemp[1].id)>>
               /\ fd_pos' = fd_pos + r
               /\ sp' = [sp EXCEPT !.pc = "data_map", !.r = r]
  /\ UNCHANGED <<monVars, ipcVars, argv, elf_buf, child_env>>

\* r = sys_page_map(0, UTEMP, child, va + i - start, PTE_U | PTE_W | PTE_P)
SpawnDataMap ==
  /\ sp.pc = "data_map"
  /\ \E r \in Results(0) :
       /\ Log("sys_page_map", r)
       /\ IF r < 0 THEN Return(r) /\ UNCHANGED child_env
          ELSE /\ MapInChild(PageVa(elf_buf.phs[sp.ph], sp.i), utemp[1],
                             PTE_U + PTE_W + PTE_P)
               /\ sp' = [sp EXCEPT !.pc = "data_unmap", !.r = r]
  /\ UNCHANGED <<monVars, ipcVars, argv, elf_buf, fd_pos, utemp>>

\* a loop that goes on to the next page with the page left at UTEMP
SpawnDataUnmapNot ==
  /\ sp.pc = "data_unmap"
  /\ Goto(AfterPage(elf_buf.phs, sp.ph, sp.i))
  /\ UNCHANGED <<monVars, ipcVars, argv, elf_buf, fd_pos, utemp, child_env, ops>>

\* r = sys_page_unmap(0, UTEMP)
SpawnDataUnmap ==
  /\ sp.pc = "data_unmap"
  /\ \E r \in Results(0) :
       /\ Log("sys_page_unmap", r)
       /\ IF r < 0 THEN Return(r) /\ UNCHANGED utemp
          ELSE /\ utemp' = <<>>
               /\ Goto(AfterPage(elf_buf.phs, sp.ph, sp.i))
  /\ UNCHANGED <<monVars, ipcVars, argv, elf_buf, fd_pos, child_env>>

\* r = sys_env_set_trapframe(child, &child_tf)
SpawnSetTrapframe ==
  /\ sp.pc = "set_trapframe"
  /\ \E r \in Results(0) :
       /\ Log("sys_env_set_trapframe", r)
       /\ IF r < 0 THEN Return(r) /\ UNCHANGED child_env
          ELSE /\ child_env' = [child_env EXCEPT !.env_tf = sp.child_tf]
               /\ sp' = [sp EXCEPT !.pc = "set_status", !.r = r]
  /\ UNCHANGED <<monVars, ipcVars, argv, elf_buf, fd_pos, utemp>>

\* r = sys_env_set_status(child, ENV_RUNNABLE); return child;
SpawnSetStatus ==
  /\ sp.pc = "set_status"
  /\ \E r \in Results(0) :
       /\ Log("sys_env_set_status", r)
       /\ IF r < 0 THEN Return(r) /\ UNCHANGED child_env
          ELSE /\ child_env' = [child_env EXCEPT !.env_status = ENV_RUNNABLE]
               /\ Return(sp.child)
  /\ UNCHANGED <<monVars, ipcVars, argv, elf_buf, fd_pos, utemp>>

SpawnNext ==
  \/ SpawnOpen
  \/ SpawnReadHeader
  \/ SpawnCheckMagic
  \/ SpawnExofork
  \/ InitStackFit
  \/ InitStackAlloc
  \/ InitStackWrite
  \/ InitStackMap
  \/ InitStackUnmap
  \/ InitStackError
  \/ SpawnReadMap
  \/ SpawnTextMap
  \/ SpawnSeek
  \/ SpawnPageAlloc
  \/ SpawnDataRead
  \/ SpawnDataMap
  \/ SpawnDataUnmap
  \/ SpawnSetTrapframe
  \/ SpawnSetStatus

(***************************************************************************)
(* kern/monitor.c.  A line is a sequence of characters; readline gives a   *)
(* line or NULL.  The physical pages and their reference counts are the    *)
(* kernel's (kern/pmap.c).                                                 *)
(***************************************************************************)
WHITESPACE == {"\t", "\r", "\n", " "}
MAXARGS == 16
\* the command table: name and handler
commands ==
  << [name |-> <<"h", "e", "l", "p">>, func |-> "mon_help"],
     [name |-> <<"k", "e", "r", "n", "i", "n", "f", "o">>, func |-> "mon_kerninfo"],
     [name |-> <<"b", "a", "c", "k", "t", "r", "a", "c", "e">>, func |-> "mon_backtrace"],
     [name |-> <<"s", "h", "o", "w", "m", "a", "p", "p", "i", "n", "g", "s">>, func |-> "mon_showmappings"],
     [name |-> <<"a", "l", "l", "o", "c", "_", "p", "a", "g", "e">>, func |-> "mon_alloc_page"],
     [name |-> <<"f", "r", "e", "e", "_", "p", "a", "g", "e">>, func |-> "mon_free_page"],
     [name |-> <<"p", "a", "g", "e", "_", "s", "t", "a", "t", "u", "s">>, func |-> "mon_page_status"] >>
NCOMMANDS == Len(commands)

\* the lines typed at the prompt
LineEmpty == <<>>
LineBlank == <<" ", "\t", " ">>
LineHelp == <<"h", "e", "l", "p">>
LineHelpPadded == <<" ", " ", "h", "e", "l", "p", "\t", " ">>
LineHelpArg == <<"h", "e", "l", "p", " ", "m", "e">>
LineHelpx == <<"h", "e", "l", "p", "x">>
LineHel == <<"h", "e", "l">>
LineKerninfo == <<"k", "e", "r", "n", "i", "n", "f", "o">>
LineBacktrace == <<"b", "a", "c", "k", "t", "r", "a", "c", "e">>
LineFoo == <<"f", "o", "o", " ", "1">>
LineShowNoArgs == <<"s", "h", "o", "w", "m", "a", "p", "p", "i", "n", "g", "s">>
LineShow ==
  <<"s", "h", "o", "w", "m", "a", "p", "p", "i", "n", "g", "s", " ", "0",
    "x", "1", "0", "0", "0", " ", "0", "x", "2", "0", "0", "0">>
LineShowInvalid ==
  <<"s", "h", "o", "w", "m", "a", "p", "p", "i", "n", "g", "s", " ", "0",
    "x", "2", "0", "0", "0", " ", "0", "x", "1", "0", "0", "0">>
LineAlloc == <<"a", "l", "l", "o", "c", "_", "p", "a", "g", "e">>
LineFreeNoArgs == <<"f", "r", "e", "e", "_", "p", "a", "g", "e">>
LineFree1 ==
  <<"f", "r", "e", "e", "_", "p", "a", "g", "e", " ", "0", "x", "1", "0", "0", "0">>
LineFree2 ==
  <<"f", "r", "e", "e", "_", "p", "a", "g", "e", " ", "8", "1", "9", "2">>
LineStatus1 ==
  <<"p", "a", "g", "e", "_", "s", "t", "a", "t", "u", "s", " ", "0", "x", "1", "0", "0", "0">>
LineStatus2 ==
  <<"p", "a", "g", "e", "_", "s", "t", "a", "t", "u", "s", " ", "0", "x", "2", "0", "0", "0">>
LinePanic == <<"p", "a", "g", "e", "_", "s", "t", "a", "t", "u", "s", " ", "-", "1">>
LineShowWrap ==
  <<"s", "h", "o", "w", "m", "a", "p", "p", "i", "n", "g", "s",
    " ", "-", "4", "0", "9", "6", " ", "-", "4", "0", "9", "6">>
LineShowOdd ==
  <<"s", "h", "o", "w", "m", "a", "p", "p", "i", "n", "g", "s", " ", "0",
    "x", "1", "2", "3", "4", " ", "0", "x", "2", "0", "0", "1">>
LineFree0 == <<"f", "r", "e", "e", "_", "p", "a", "g", "e", " ", "0">>
LineStatus0 == <<"p", "a", "g", "e", "_", "s", "t", "a", "t", "u", "s", " ", "0", "x", "1", "0">>
LineStatusTwoArgs ==
  <<"p", "a", "g", "e", "_", "s", "t", "a", "t", "u", "s", " ", "1", " ", "2">>
LineFifteen ==
  <<"h", "e", "l", "p", " ", "a", " ", "a", " ", "a", " ", "a", " ", "a",
    " ", "a", " ", "a", " ", "a", " ", "a", " ", "a", " ", "a", " ", "a",
    " ", "a", " ", "a">>
LineSixteen ==
  <<"h", "e", "l", "p", " ", "a", " ", "a", " ", "a", " ", "a", " ", "a",
    " ", "a", " ", "a", " ", "a", " ", "a", " ", "a", " ", "a", " ", "a",
    " ", "a", " ", "a", " ", "a">>
Lines ==
  {LineEmpty, LineBlank, LineHelp, LineHelpPadded, LineHelpArg, LineHelpx, LineHel,
   LineKerninfo, LineBacktrace, LineFoo, LineShowNoArgs, LineShow, LineShowInvalid,
   LineAlloc, LineFreeNoArgs, LineFree1, LineFree2, LineStatus1, LineStatus2,
   LineStatusTwoArgs, LinePanic, LineShowWrap, LineShowOdd,
   LineFree0, LineStatus0, LineFifteen, LineSixteen}

\* the physical pages (npage) and the states of the allocator the monitor
\* starts in: page 0 is in use by the kernel, the others are free
Pages == 0 .. NPages - 1

(***************************************************************************)
(* lib/string.c: strtol(s, 0, 0), as a 32-bit word.                        *)
(***************************************************************************)
Digits == <<"0", "1", "2", "3", "4", "5", "6", "7", "8", "9",
            "a", "b", "c", "d", "e", "f">>
UpperDigits == <<"A", "B", "C", "D", "E", "F">>
\* the value of a digit character, 99 for any other character
DigitVal(c) ==
  IF \E k \in 1 .. 16 : Digits[k] = c THEN (CHOOSE k \in 1 .. 16 : Digits[k] = c) - 1
  ELSE IF \E k \in 1 .. 6 : UpperDigits[k] = c
       THEN (CHOOSE k \in 1 .. 6 : UpperDigits[k] = c) + 9
       ELSE 99
\* val * base + dig, modulo 2^32
MulAdd(w, base, dig) ==
  LET l == w.lo * base + dig
  IN W((w.hi * base + (l \div PGSIZE)) % Pow2(20), l % PGSIZE)
\* -val, modulo 2^32
WNeg(w) ==
  IF w.lo = 0 THEN W((Pow2(20) - w.hi) % Pow2(20), 0)
  ELSE W(Pow2(20) - 1 - w.hi, PGSIZE - w.lo)
RECURSIVE StrtolDigits(_, _, _, _)
StrtolDigits(s, p, base, val) ==
  IF p > Len(s) \/ DigitVal(s[p]) >= base THEN val
  ELSE StrtolDigits(s, p + 1, base, MulAdd(val, base, DigitVal(s[p])))
RECURSIVE SkipBlanks(_, _)
SkipBlanks(s, p) ==
  IF p <= Len(s) /\ s[p] \in {" ", "\t"} THEN SkipBlanks(s, p + 1) ELSE p
strtol(s) ==
  LET p0 == SkipBlanks(s, 1)
      neg == p0 <= Len(s) /\ s[p0] = "-"
      p1 == IF p0 <= Len(s) /\ s[p0] \in {"+", "-"} THEN p0 + 1 ELSE p0
      hex == p1 + 1 <= Len(s) /\ s[p1] = "0" /\ s[p1 + 1] = "x"
      oct == ~hex /\ p1 <= Len(s) /\ s[p1] = "0"
      val == IF hex THEN StrtolDigits(s, p1 + 2, 16, W(0, 0))
             ELSE IF oct THEN StrtolDigits(s, p1 + 1, 8, W(0, 0))
             ELSE StrtolDigits(s, p1, 10, W(0, 0))
  IN IF neg THEN WNeg(val) ELSE val

(***************************************************************************)
(* The handlers.  A handler gives what it returns (ret), what it prints    *)
(* (out), the allocator state it leaves, and how it ends: it returns, it   *)
(* panics (pa2page of an address beyond the physical memory), or it never  *)
(* comes back ("running").                                                 *)
(***************************************************************************)
Outcome(ret, out, n, ref, free, end) ==
  [ret |-> ret, out |-> out, n |-> n, pp_ref |-> ref, free |-> free, end |-> end]
Returns0(out, n) == Outcome(0, out, n, pp_ref, page_free_list, "return")

mon_help(argc, args) == Returns0("help", NCOMMANDS)
mon_kerninfo(argc, args) == Returns0("kerninfo", 0)
mon_backtrace(argc, args) == Returns0("backtrace", 0)

\* ROUNDDOWN / ROUNDUP of a uint32_t to PGSIZE
WRoundDownPg(w) == W(w.hi, 0)
WRoundUpPg(w) == WRoundDownPg(WAdd(w, PGSIZE - 1))
RECURSIVE ShowLoop(_, _, _)
\* for (i = lva; i <= hva; i += PGSIZE): the number of lines printed, or -1
\* when the loop never ends: i += PGSIZE wraps to 0 only from the last page,
\* which the test lets through only when hva is the last page, and then the
\* test lets every page through
ShowLoop(i, hva, n) ==
  IF ULt(hva, i) THEN n
  ELSE IF i.hi = Pow2(20) - 1 THEN -1
  ELSE ShowLoop(WAdd(i, PGSIZE), hva, n + 1)
mon_showmappings(argc, args) ==
  IF argc = 3
  THEN LET lva == WRoundDownPg(strtol(args[2]))
           hva == WRoundUpPg(strtol(args[3]))
       IN IF ~ULt(hva, lva)
          THEN LET n == ShowLoop(lva, hva, 0)
               IN IF n < 0
                  THEN Outcome(0, "mappings", n, pp_ref, page_free_list, "running")
                  ELSE Returns0("mappings", n)
          ELSE Returns0("invalid_address", 0)
  ELSE Returns0("usage", 0)

\* page_alloc takes the head of the free list; the handler counts the
\* reference
mon_alloc_page(argc, args) ==
  IF page_free_list # <<>>
  THEN Outcome(0, "allocated_at", Head(page_free_list),
               [pp_ref EXCEPT ![Head(page_free_list)] = @ + 1],
               Tail(page_free_list), "return")
  ELSE Returns0("allocate_failed", 0)

\* pa2page panics for a physical address beyond npage pages
PPN(pa) == pa.hi
\* a free_page that drops a reference of any page in use
mon_free_pageInUse(argc, args) ==
  IF argc = 2
  THEN LET ppn == PPN(strtol(args[2]))
       IN IF ppn >= NPages THEN Outcome(0, "panic", 0, pp_ref, page_free_list, "panic")
          ELSE IF pp_ref[ppn] >= 1
               THEN Outcome(0, "free_successfully", ppn, [pp_ref EXCEPT ![ppn] = @ - 1],
                            IF pp_ref[ppn] = 1 THEN <<ppn>> \o page_free_list
                            ELSE page_free_list, "return")
               ELSE Returns0("free_failed", ppn)
  ELSE Returns0("usage", 0)

mon_free_page(argc, args) ==
  IF argc = 2
  THEN LET ppn == PPN(strtol(args[2]))
       IN IF ppn >= NPages THEN Outcome(0, "panic", 0, pp_ref, page_free_list, "panic")
          ELSE IF pp_ref[ppn] = 1
               THEN Outcome(0, "free_successfully", ppn, [pp_ref EXCEPT ![ppn] = 0],
                            <<ppn>> \o page_free_list, "return")
               ELSE Returns0("free_failed", ppn)
  ELSE Returns0("usage", 0)

mon_page_status(argc, args) ==
  IF argc = 2
  THEN LET ppn == PPN(strtol(args[2]))
       IN IF ppn >= NPages THEN Outcome(0, "panic", 0, pp_ref, page_free_list, "panic")
          ELSE IF pp_ref[ppn] > 0 THEN Returns0("allocated", ppn)
               ELSE Returns0("free", ppn)
  ELSE Returns0("usage", 0)

\* commands[i].func(argc, argv, tf)
CallHandler(func, argc, args) ==
  CASE func = "mon_help" -> mon_help(argc, args)
    [] func = "mon_kerninfo" -> mon_kerninfo(argc, args)
    [] func = "mon_backtrace" -> mon_backtrace(argc, args)
    [] func = "mon_showmappings" -> mon_showmappings(argc, args)
    [] func = "mon_alloc_page" -> mon_alloc_page(argc, args)
    [] func = "mon_free_page" -> mon_free_page(argc, args)
    [] func = "mon_page_status" -> mon_page_status(argc, args)

(***************************************************************************)
(* runcmd and monitor.                                                     *)
(***************************************************************************)
RECURSIVE SkipWhite(_, _)
\* while (*buf && strchr(WHITESPACE, *buf)) *buf++ = 0;
SkipWhite(buf, p) ==
  IF p <= Len(buf) /\ buf[p] \in WHITESPACE THEN SkipWhite(buf, p + 1) ELSE p
RECURSIVE SkipArg(_, _)
\* while (*buf && !strchr(WHITESPACE, *buf)) buf++;
SkipArg(buf, p) ==
  IF p <= Len(buf) /\ buf[p] \notin WHITESPACE THEN SkipArg(buf, p + 1) ELSE p
RECURSIVE ParseArgs(_, _, _)
\* the parse loop of runcmd: the argument vector, or too many arguments
ParseArgs(buf, p, args) ==
  LET q == SkipWhite(buf, p)
  IN IF q > Len(buf) THEN [ok |-> TRUE, argv |-> args]
     ELSE IF Len(args) = MAXARGS - 1 THEN [ok |-> FALSE, argv |-> args]
     ELSE ParseArgs(buf, SkipArg(buf, q), Append(args, SubSeq(buf, q, SkipArg(buf, q) - 1)))

\* a lookup that takes the first command the token is a prefix of
LookupPrefix(tok) ==
  LET hits == {i \in 1 .. NCOMMANDS :
                 Len(tok) <= Len(commands[i].name)
                 /\ SubSeq(commands[i].name, 1, Len(tok)) = tok}
  IN IF hits = {} THEN 0 ELSE CHOOSE i \in hits : \A j \in hits : i <= j

\* for (i = 0; i < NCOMMANDS; i++) if (strcmp(argv[0], commands[i].name) == 0):
\* the first entry with that name, 0 when there is none
Lookup(tok) ==
  LET hits == {i \in 1 .. NCOMMANDS : commands[i].name = tok}
  IN IF hits = {} THEN 0 ELSE CHOOSE i \in hits : \A j \in hits : i <= j

\* what runcmd does with a line: the handler it calls (0: none), the
\* arguments it passes, and the outcome
Runcmd(buf) ==
  LET parsed == ParseArgs(buf, 1, <<>>)
      argc == Len(parsed.argv)
      i == IF parsed.ok /\ argc > 0 THEN Lookup(parsed.argv[1]) ELSE 0
  IN IF ~parsed.ok THEN [called |-> 0, argv |-> <<>>, res |-> Returns0("too_many_arguments", 0)]
     ELSE IF argc = 0 THEN [called |-> 0, argv |-> <<>>, res |-> Returns0("", 0)]
     ELSE IF i = 0 THEN [called |-> 0, argv |-> <<>>, res |-> Returns0("unknown_command", 0)]
     ELSE [called |-> i, argv |-> parsed.argv,
           res |-> CallHandler(commands[i].func, argc, parsed.argv)]

\* a loop that also stops on a result of 0
MonitorAfterZeroStops(ret) == IF ret <= 0 THEN "exited" ELSE "read"

\* if (runcmd(buf, tf) < 0) break;
MonitorAfter(ret) == IF ret < 0 THEN "exited" ELSE "read"

NoLine == [pc |-> "idle", buf |-> <<>>, got |-> "none", called |-> 0, argv |-> <<>>,
           ret |-> 0, out |-> "", n |-> 0, panicked |-> FALSE]
\* the monitor is not running
MonIdle ==
  /\ mon = NoLine
  /\ pp_ref = [p \in Pages |-> 0]
  /\ page_free_list = <<>>
\* monitor(tf) was entered
MonInit ==
  /\ mon = [NoLine EXCEPT !.pc = "read"]
  /\ pp_ref \in {[p \in Pages |-> IF p = 0 THEN r ELSE 0] : r \in {1, 2}}
  /\ page_free_list = [k \in 1 .. NPages - 1 |-> NPages - k]

\* buf = readline("K> "): a line, or NULL, for which the loop reads again
MonReadline ==
  /\ mon.pc = "read"
  /\ \/ \E l \in Lines : mon' = [NoLine EXCEPT !.pc = "runcmd", !.buf = l, !.got = "line",
                                                !.panicked = mon.panicked]
     \/ mon' = [NoLine EXCEPT !.pc = "read", !.got = "null", !.panicked = mon.panicked]
  /\ UNCHANGED <<ipcVars, spawnVars, pp_ref, page_free_list>>

\* runcmd(buf, tf) and the test of its result; a panic of the kernel enters
\* the monitor anew and never comes back to this loop
MonRuncmd ==
  /\ mon.pc = "runcmd"
  /\ LET c == Runcmd(mon.buf)
     IN /\ mon' = [mon EXCEPT !.called = c.called, !.argv = c.argv, !.ret = c.res.ret,
                              !.out = c.res.out, !.n = c.res.n,
                              !.panicked = mon.panicked \/ c.res.end = "panic",
                              !.pc = IF c.res.end = "return" THEN MonitorAfter(c.res.ret)
                                     ELSE IF c.res.end = "panic" THEN "read"
                                     ELSE "running"]
        /\ pp_ref' = c.res.pp_ref
        /\ page_free_list' = c.res.free
  /\ UNCHANGED <<ipcVars, spawnVars>>

MonNext ==
  \/ MonReadline
  \/ MonRuncmd

\* the IPC system with nobody in it
IpcIdle ==
  /\ IpcInit
  /\ impl = "part_001"
  /\ participants = {1}

(***************************************************************************)
(* The specifications.                                                     *)
(***************************************************************************)
Init == IpcInit /\ SpawnIdle /\ MonIdle

Next ==
  \/ \E a \in RecvArgs : IpcRecvCall(a)
  \/ RecvStep
  \/ \E s \in Senders, a \in SendArgs : IpcSendCall(s, a)
  \/ \E s \in Senders : SendStep(s)

Spec == Init /\ [][Next]_vars

\* a fair scheduler: an environment that can take a step of its call does so
FairSpec ==
  /\ Spec
  /\ WF_vars(RecvStep)
  /\ \A s \in Senders : WF_vars(SendStep(s))

\* one call of spawn
SpawnSpecInit == IpcIdle /\ SpawnInit /\ MonIdle
SpawnSpec == SpawnSpecInit /\ [][SpawnNext]_vars

\* the kernel monitor at its prompt
MonSpecInit == IpcIdle /\ SpawnIdle /\ MonInit
MonSpec == MonSpecInit /\ [][MonNext]_vars

\* the single-sender system under the fair scheduler
OneSenderInit == Init /\ participants = {1}
FairSpecOne ==
  /\ OneSenderInit /\ [][Next]_vars
  /\ WF_vars(RecvStep)
  /\ \A s \in Senders : WF_vars(SendStep(s))

\* every sender takes part, the receiver calls ipc_recv again whenever its
\* call has returned, and the scheduler is fair to each environment
AllSendersInit == Init /\ participants = Senders /\ impl = "part_001"
FairSpecAgain ==
  /\ AllSendersInit /\ [][Next]_vars
  /\ WF_vars(\E a \in RecvArgs : IpcRecvCall(a))
  /\ WF_vars(RecvStep)
  /\ \A s \in Senders : WF_vars(SendStep(s))

(***************************************************************************)
(* The claims about IPC.                                                   *)
(***************************************************************************)
\* the arguments with which the kernel accepts a send to the receiver
ValidSend(a) ==
  /\ a.to_env = RecvEnv
  /\ a.pg # NULL => SrcPageOk(a.pg, a.perm)

InSend(s) == spc[s] \in {"try", "yield"}
RecvSucceeded == rpc = "done" /\ ~(rerr < 0)
RecvFailed == rpc = "done" /\ rerr < 0

\* C1: a send racing with a receive delivers exactly once: no call of
\* ipc_send has more than one successful try-send, a call that returned had
\* exactly one, a call with arguments the kernel accepts never panics, and a
\* successful ipc_recv returns the payload (as the int32_t of the same 32 bits)
\* and the id of the sender whose try-send delivered the message.
C1_DeliveredExactlyOnce ==
  /\ \A s \in Senders :
       /\ nsucc[s] <= 1
       /\ spc[s] = "done" => nsucc[s] = 1
       /\ InSend(s) => nsucc[s] = 0
       /\ spc[s] = "panic" => ~ValidSend(sargs[s])
  /\ RecvSucceeded =>
       /\ Len(inflight) = 1
       /\ ToUint32(rret[1]) = inflight[1].val
       /\ rargs.from_env_store => from_out = <<inflight[1].from>>

C1_Witness ==
  /\ participants = {1}
  /\ spc[1] = "done"
  /\ RecvSucceeded
  /\ from_out = <<1>>
  /\ rret = <<5 - Pow2(30) - Pow2(30)>>

\* C2: ipc_send leaves a try-send towards the retry (yield) exactly when it
\* failed with E_IPC_NOT_RECV, towards the panic exactly when it failed with
\* any other code, and towards its return exactly when the result was >= 0;
\* a panicked call never continues.
C2_RetryOnlyOnNotRecv ==
  [][\A s \in Senders :
       /\ spc[s] = "try" /\ spc'[s] # "try" =>
            /\ spc'[s] = "yield" <=> serr'[s] = 0 - E_IPC_NOT_RECV
            /\ spc'[s] = "panic" <=> (serr'[s] < 0 /\ serr'[s] # 0 - E_IPC_NOT_RECV)
            /\ spc'[s] = "done" <=> serr'[s] >= 0
       /\ spc[s] = "yield" => spc'[s] \in {"yield", "try"}
       /\ spc[s] = "panic" => spc'[s] = "panic"]_vars

C2_Witness ==
  \E s, u \in Senders :
    /\ spc[s] = "yield" /\ serr[s] = 0 - E_IPC_NOT_RECV
    /\ spc[u] = "panic" /\ serr[u] = 0 - E_INVAL

\* C3: ipc_recv hands sys_ipc_recv the caller's page slot when pg is not
\* null and UTOP when it is null, in every revision of ipc_recv.
C3_RecvPassesSlotOrSentinel ==
  recv_arg # <<>> =>
    /\ rargs.pg # NULL => recv_arg[1] = rargs.pg
    /\ rargs.pg = NULL => recv_arg[1] = UTOP
    /\ recv_arg[1] # NULL

\* the same for the revision src/unnamed/part_001 alone
C3_Part001PassesSlotOrSentinel ==
  impl = "part_001" => C3_RecvPassesSlotOrSentinel

\* C4: after a successful ipc_recv without a page slot no page was mapped
\* into the receiver and the permission output is zero; the permission
\* output is nonzero exactly when a page was transferred.
C4_NoSlotNoPage ==
  RecvSucceeded /\ Len(inflight) = 1 =>
    /\ rargs.pg = NULL =>
         /\ inflight[1].mapped_at = <<>>
         /\ rargs.perm_store => perm_out = <<0>>
    /\ rargs.perm_store => (perm_out[1] # 0 <=> inflight[1].mapped_at # <<>>)

\* the same for the revision src/unnamed/part_001 alone
C4_Part001NoSlotNoPage ==
  impl = "part_001" => C4_NoSlotNoPage

\* C5: when sys_ipc_recv fails, ipc_recv returns its error code, stores 0
\* through each output pointer that was supplied and nothing through one
\* that was not, and does not read the payload.
C5_RecvFailure ==
  RecvFailed =>
    /\ rret = <<rerr>>
    /\ rerr = SysIpcRecvErr(recv_arg[1])
    /\ from_out = IF rargs.from_env_store THEN <<0>> ELSE <<>>
    /\ perm_out = IF rargs.perm_store THEN <<0>> ELSE <<>>
    /\ ~value_read

\* a failing call whose outputs were supplied, after an earlier message
\* left a sender id in the mailbox
C5_Witness ==
  /\ RecvFailed
  /\ rargs.from_env_store /\ rargs.perm_store
  /\ env.env_ipc_from # 0

\* C6: with a single sender under a fair scheduler, a send with arguments
\* the kernel accepts returns once the target is in the receiving state.
C6_SendReturns ==
  (InSend(1) /\ ValidSend(sargs[1]) /\ env.env_ipc_recving) ~> (spc[1] = "done")

\* the sender has already failed once when the target starts receiving
C6_Witness ==
  /\ participants = {1}
  /\ spc[1] = "yield" /\ ValidSend(sargs[1])
  /\ env.env_ipc_recving

\* C7: with several senders, at most one delivered message is outstanding;
\* a delivery happens only while the receiving flag is set and clears it;
\* the mailbox holds the winner's fields until ipc_recv has read them; a
\* sender that lost saw E_IPC_NOT_RECV and still holds its message.
MailboxIs(m) ==
  /\ env.env_ipc_from = m.from
  /\ env.env_ipc_value = m.val
  /\ env.env_ipc_perm = m.perm

C7_OneWinnerPerRecv ==
  /\ Len(inflight) <= 1
  /\ env.env_ipc_recving => inflight = <<>> /\ rpc = "blocked"
  /\ Len(inflight) = 1 => MailboxIs(inflight[1]) /\ ~env.env_ipc_recving
  /\ RecvSucceeded =>
       /\ Len(inflight) = 1
       /\ rargs.from_env_store => from_out = <<env.env_ipc_from>>
       /\ rargs.perm_store => perm_out = <<env.env_ipc_perm>>
  /\ \A s \in Senders :
       spc[s] = "yield" => serr[s] = 0 - E_IPC_NOT_RECV /\ sargs[s] \in SendArgs

\* two senders raced for one receive: one has returned, the other retries
C7_Witness ==
  /\ \E s, u \in Senders :
       /\ spc[s] = "done"
       /\ spc[u] = "yield" /\ ValidSend(sargs[u])
       /\ Len(inflight) = 1 /\ inflight[1].from = s
  /\ rpc \in {"blocked", "from"}

(***************************************************************************)
(* The claims about spawn.                                                 *)
(***************************************************************************)
OpsOf(name) == {k \in 1 .. Len(ops) : ops[k].op = name}
Succeeded(name) == {k \in OpsOf(name) : ops[k].r >= 0}
ChildExists == Succeeded("sys_exofork") # {}
ChildRunnable == ChildExists /\ child_env.env_status = ENV_RUNNABLE
SpawnReturned == sp.pc = "done"
SpawnFailed == SpawnReturned /\ sp.ret[1] < 0
MappedInChild(va) == ChildExists /\ \E m \in child_env.pgdir : m.va = va
\* the page-aligned file offsets the loop of a loadable segment runs over
PageOffsets(ph) ==
  {SegStart(ph) + n * PGSIZE : n \in 0 .. ((SegEnd(ph) - SegStart(ph)) \div PGSIZE) - 1}
\* the child addresses of all pages of all loadable segments of the header
LoadPages(h) ==
  UNION {{PageVa(h.phs[k], i) : i \in PageOffsets(h.phs[k])} :
           k \in {n \in 1 .. Len(h.phs) : IsLoad(h.phs[n])}}

\* C8: the child is marked runnable at most once, by the last substrate
\* call of spawn, when the stack page and every page of every loadable
\* segment are mapped in the child and the finished trapframe (entry point
\* and initial stack pointer) is installed; a spawn that returned an error
\* has not marked the child runnable.
C8_RunnableLast ==
  /\ Cardinality(OpsOf("sys_env_set_status")) <= 1
  /\ ChildRunnable <=> Succeeded("sys_env_set_status") # {}
  /\ \A k \in Succeeded("sys_env_set_status") :
       /\ k = Len(ops)
       /\ ops[k - 1].op = "sys_env_set_trapframe" /\ ops[k - 1].r >= 0
       /\ child_env.env_tf = sp.child_tf
       /\ child_env.env_tf.tf_eip = elf_buf.e_entry
       /\ child_env.env_tf.tf_esp # ParentTf.tf_esp
       /\ MappedInChild(WAdd(USTACKTOP, 0 - PGSIZE))
       /\ \A va \in LoadPages(elf_buf) : MappedInChild(va)
  /\ SpawnFailed => ~ChildRunnable

\* a spawn of an image with a two-page text segment and a data segment
\* has returned the runnable child
C8_Witness ==
  /\ SpawnReturned /\ sp.ret = <<ChildId>>
  /\ ChildRunnable
  /\ elf_buf.phs = <<SegText2, SegDataMid>>
  /\ Cardinality(child_env.pgdir) = 5

\* the substrate calls whose failure is a failure of a step of spawn: all
\* but the unmap that cleans up inside the stack construction
FailedSteps == {k \in 1 .. Len(ops) : ops[k].r < 0 /\ ops[k].op # "cleanup_unmap"}

\* C9: when a step of spawn fails, spawn performs no later step (but the
\* cleanup of the failed stack construction) and returns the error code of
\* that step.
C9_FailureShortCircuits ==
  \A k \in FailedSteps :
    /\ \A j \in k + 1 .. Len(ops) : ops[j].op = "cleanup_unmap"
    /\ sp.pc \in {"done", "stack_error"}
    /\ SpawnReturned => sp.ret = <<ops[k].r>>

\* the same for every step but the two whose result spawn does not look
\* at: the read of the header prefix and the seek to the segment data
C9_FailureShortCircuitsButReadSeek ==
  \A k \in FailedSteps \ (OpsOf("seek") \cup {2}) :
    /\ \A j \in k + 1 .. Len(ops) : ops[j].op = "cleanup_unmap"
    /\ sp.pc \in {"done", "stack_error"}
    /\ SpawnReturned => sp.ret = <<ops[k].r>>

\* the header prefix was read and does not carry the magic number
BadMagicRead ==
  /\ Len(ops) >= 2 /\ ops[2].r >= 0
  /\ elf_buf.e_magic # ELF_MAGIC

\* C10: an image without the magic number makes spawn return -E_INVAL,
\* with no child created and the caller not terminated.
C10_BadMagicReturnsInval ==
  BadMagicRead /\ sp.pc # "magic" =>
    /\ SpawnReturned
    /\ sp.ret = <<0 - E_INVAL>>
    /\ ~ChildExists

\* what the code does instead: the caller panics, and no child exists
C10_BadMagicPanics ==
  BadMagicRead /\ sp.pc # "magic" => sp.pc = "panic" /\ ~ChildExists

SpawnSucceeded == SpawnReturned /\ sp.ret = <<ChildId>>
\* the loadable segments of the header that are read-only / writable
TextPhs == {k \in 1 .. Len(elf_buf.phs) : IsLoad(elf_buf.phs[k]) /\ IsText(elf_buf.phs[k])}
DataPhs == {k \in 1 .. Len(elf_buf.phs) : IsLoad(elf_buf.phs[k]) /\ ~IsText(elf_buf.phs[k])}
\* the mapping of the child at va (there is at most one)
ChildMapping(va) == CHOOSE m \in child_env.pgdir : m.va = va

\* C11: after a successful spawn, for every loadable read-only segment and
\* every page-aligned file offset i from ROUNDDOWN(p_offset) up to
\* ROUNDUP(p_offset + p_filesz), the child's page at
\* ROUNDDOWN(p_va) + (i - ROUNDDOWN(p_offset)) is the block-cache page of
\* file offset i itself (not a copy), mapped user-readable and not writable;
\* the page depends on the file offset only, so every spawn of the image
\* maps the same pages.
C11_TextPagesShared ==
  SpawnSucceeded =>
    \A k \in TextPhs :
      LET ph == elf_buf.phs[k]
          start == ph.p_offset - (ph.p_offset % PGSIZE)
          last == ph.p_offset + ph.p_filesz - 1
      IN \A n \in 0 .. ((last \div PGSIZE) - (start \div PGSIZE)) :
           LET i == start + n * PGSIZE
               va == ToUint32((ph.p_va - (ph.p_va % PGSIZE)) + (i - start))
           IN /\ MappedInChild(va)
              /\ ChildMapping(va).page = [kind |-> "blk", from |-> i, len |-> PGSIZE]
              /\ ChildMapping(va).perm = PTE_U + PTE_P
              /\ ~HasBit(ChildMapping(va).perm, PTE_W)

\* a successful spawn of an image with a two-page text segment and a text
\* segment at an unaligned offset
C11_Witness ==
  /\ SpawnSucceeded
  /\ elf_buf.phs = <<SegText2, SegTextOdd>>
  /\ Cardinality(child_env.pgdir) = 4

Min(a, b) == IF a < b THEN a ELSE b
Max(a, b) == IF a > b THEN a ELSE b
\* every seek of this spawn moved the file position
SeeksSucceeded == Succeeded("seek") = OpsOf("seek")
\* the number of the last page of a writable segment, counted from its first
LastDataPage(ph) ==
  ((ph.p_offset + ph.p_memsz - 1) \div PGSIZE) - (ph.p_offset \div PGSIZE)
\* the child address of page n of a segment
SegPageVa(ph, n) == ToUint32((ph.p_va - (ph.p_va % PGSIZE)) + n * PGSIZE)
\* where the file bytes of the segment end in the page of file offset i
\* (0 when the page lies beyond them)
FileEndInPage(ph, i) == Max(0, Min(ph.p_offset + ph.p_filesz, i + PGSIZE) - i)
\* a page whose byte o is the file byte i + o for every o below the end of
\* the segment's file bytes, and zero from there on.  A page record
\* [from, len] holds the file bytes from .. from + len - 1 at its offsets
\* 0 .. len - 1 and zeros behind them.
HoldsSegmentPage(page, ph, i) ==
  /\ page.kind = "anon"
  /\ page.len = FileEndInPage(ph, i)
  /\ page.len > 0 => page.from = i
DataPagesRight(ph) ==
  \A n \in 0 .. LastDataPage(ph) :
    /\ MappedInChild(SegPageVa(ph, n))
    /\ HoldsSegmentPage(ChildMapping(SegPageVa(ph, n)).page, ph,
                        (ph.p_offset - (ph.p_offset % PGSIZE)) + n * PGSIZE)

\* C12: after a successful spawn the child's memory of every loadable
\* writable segment holds the file's bytes below p_filesz and zeros from
\* p_filesz to the end of the last mapped page.
C12_DataThenZeros ==
  SpawnSucceeded /\ SeeksSucceeded =>
    \A k \in DataPhs : DataPagesRight(elf_buf.phs[k])

\* the same for the segments that start at a page-aligned file offset,
\* with the split in mid-page and on a page boundary
C12_AlignedDataThenZeros ==
  SpawnSucceeded /\ SeeksSucceeded =>
    \A k \in DataPhs :
      elf_buf.phs[k].p_offset % PGSIZE = 0 => DataPagesRight(elf_buf.phs[k])

\* a successful spawn of both kinds of aligned writable segment
C12_AlignedWitness ==
  /\ SpawnSucceeded /\ SeeksSucceeded
  /\ elf_buf.phs = <<SegDataMid, SegDataEdge>>

\* C13: for a loadable writable segment at a file offset that is not
\* page-aligned (PGOFF(p_offset) = PGOFF(p_va)), after a successful spawn
\* the byte at child address p_va + k is the file byte p_offset + k for
\* every k below p_filesz: the page of file offset i holds file byte i + o
\* at its offset o.
C13_NoByteShift ==
  SpawnSucceeded /\ SeeksSucceeded =>
    \A k \in DataPhs :
      LET ph == elf_buf.phs[k]
          start == ph.p_offset - (ph.p_offset % PGSIZE)
      IN (ph.p_offset % PGSIZE # 0 /\ ph.p_offset % PGSIZE = ph.p_va % PGSIZE) =>
           \A n \in 0 .. ((ph.p_offset + ph.p_filesz - 1) \div PGSIZE) - (start \div PGSIZE) :
             /\ MappedInChild(SegPageVa(ph, n))
             /\ ChildMapping(SegPageVa(ph, n)).page.kind = "anon"
             /\ ChildMapping(SegPageVa(ph, n)).page.from = start + n * PGSIZE
             /\ ChildMapping(SegPageVa(ph, n)).page.len >=
                  FileEndInPage(ph, start + n * PGSIZE)

\* what the code does with such a segment: the page holds the file bytes
\* from p_offset on at its offset 0, PGOFF(p_offset) bytes too low
C13_ShiftedByPgoff ==
  SpawnSucceeded /\ SeeksSucceeded =>
    \A k \in DataPhs :
      LET ph == elf_buf.phs[k]
      IN (ph.p_offset % PGSIZE # 0 /\ ph.p_filesz <= PGSIZE - (ph.p_offset % PGSIZE)) =>
           /\ MappedInChild(SegPageVa(ph, 0))
           /\ ChildMapping(SegPageVa(ph, 0)).page.from = ph.p_offset
           /\ ChildMapping(SegPageVa(ph, 0)).page.len = (ph.p_offset % PGSIZE) + ph.p_filesz

(***************************************************************************)
(* The claims about init_stack.                                            *)
(***************************************************************************)
\* init_stack returned 0: its page was allocated, mapped in the child and
\* unmapped from the parent (substrate calls 4, 5 and 6 of spawn)
InitStackSucceeded ==
  /\ Len(ops) >= 6
  /\ ops[5].op = "sys_page_map" /\ ops[5].r >= 0
  /\ ops[6].op = "sys_page_unmap" /\ ops[6].r >= 0
\* the page number of the child's stack page
StackPg == USTACKTOP.hi - 1
ChildStack == ChildMapping(W(StackPg, 0)).page

\* C14: after a successful init_stack the word at the returned stack
\* pointer is argc, the next word is the child address of the argv array,
\* the array holds argc pointers and then a null pointer, and pointer i is
\* the child address of the place in the stack page where string i with its
\* terminator is stored; the strings lie above the array and do not
\* overlap, and the stack pointer is a function of the string lengths.
C14_StackLayout ==
  InitStackSucceeded =>
    LET esp == sp.child_tf.tf_esp
        argc == Len(argv)
        room == PGSIZE - SumLens(argv)
    IN /\ MappedInChild(W(StackPg, 0))
       /\ esp.hi = StackPg
       /\ esp.lo = (room - (room % 4)) - 4 * (argc + 1) - 8
       /\ ChildStack.words[esp.lo] = W(0, argc)
       /\ LET arr == ChildStack.words[esp.lo + 4]
          IN /\ arr = W(StackPg, esp.lo + 8)
             /\ ChildStack.words[arr.lo + 4 * argc] = NULL
             /\ \A i \in 1 .. argc :
                  LET ptr == ChildStack.words[arr.lo + 4 * (i - 1)]
                  IN /\ ptr.hi = StackPg
                     /\ ChildStack.strings[i].at = W(UTEMP.hi, ptr.lo)
                     /\ ChildStack.strings[i].len = argv[i] + 1
                     /\ ptr.lo >= arr.lo + 4 * (argc + 1)
                     /\ ptr.lo + argv[i] + 1 =
                          (IF i < argc THEN ChildStack.words[arr.lo + 4 * i].lo ELSE PGSIZE)

\* init_stack succeeded for two argument strings
C14_Witness ==
  /\ InitStackSucceeded
  /\ argv = <<5, 5>>
  /\ sp.child_tf.tf_esp = W(StackPg, PGSIZE - 32)

\* the strings, the 4-byte-aligned array of argc + 1 pointers and the two
\* words fit in one page
ArgsFit ==
  LET room == PGSIZE - SumLens(argv)
  IN (room - (room % 4)) - 4 * (Len(argv) + 1) - 8 >= 0
\* init_stack was called and has made its size check
InitStackChecked == ChildExists /\ sp.pc # "init_stack"
\* init_stack returned -E_NO_MEM before any substrate call, with nothing
\* allocated at the scratch address and nothing mapped in the child
NoMemAtOnce ==
  /\ ChildExists
  /\ SpawnReturned /\ sp.ret = <<0 - E_NO_MEM>>
  /\ Len(ops) = 3
  /\ utemp = <<>>
  /\ child_env.pgdir = {}

\* C15: when the strings, the pointer array and the two words do not fit in
\* one page, init_stack returns -E_NO_MEM, having allocated no page, mapped
\* nothing in the child and left the scratch address as it was.
C15_UnfitReturnsNoMem ==
  (InitStackChecked /\ ~ArgsFit) => NoMemAtOnce

\* the same for string sizes below UTEMP + PGSIZE, for which the pointer
\* arithmetic of the size check does not wrap around
C15_UnfitBelowWrapReturnsNoMem ==
  (InitStackChecked /\ ~ArgsFit /\ SumLens(argv) <= 1025 * PGSIZE) => NoMemAtOnce

\* the converse: a return before any substrate call is a return of
\* -E_NO_MEM for arguments that do not fit
C15_ReturnAtOnceOnlyIfUnfit ==
  (InitStackChecked /\ SpawnReturned /\ Len(ops) = 3) => (NoMemAtOnce /\ ~ArgsFit)

\* the shortest single string that does not fit was refused
C15_RefusedWitness ==
  /\ NoMemAtOnce
  /\ argv = <<PGSIZE - 16>>

\* for arguments that wrap the size check around, init_stack stores outside
\* the scratch page
C15_WrappedWitness ==
  /\ sp.pc = "wild_write"
  /\ argv = <<1025 * PGSIZE + 15>>

\* the stack page was mapped into the child (substrate call 5 of spawn)
StackMapped == Len(ops) >= 5 /\ ops[5].op = "sys_page_map" /\ ops[5].r >= 0
\* every string and every word of init_stack is in the page
StackComplete(page) ==
  /\ page.kind = "stack"
  /\ "words" \in DOMAIN page
  /\ DOMAIN page.strings = 1 .. Len(argv)
  /\ Cardinality(DOMAIN page.words) = Len(argv) + 3

\* C16: the stack page is mapped into the child only with all its contents
\* written, at USTACKTOP - PGSIZE with user read-write permission; the map
\* into the child comes before the unmap from the parent, and when
\* init_stack has returned success the page is no longer mapped at UTEMP.
C16_StackHandedOver ==
  /\ StackMapped =>
       /\ ops[4].op = "sys_page_alloc" /\ ops[4].r >= 0
       /\ MappedInChild(W(StackPg, 0))
       /\ ChildMapping(W(StackPg, 0)).perm = PTE_P + PTE_U + PTE_W
       /\ StackComplete(ChildStack)
       /\ \A m \in child_env.pgdir : m.page = ChildStack => m.va = W(StackPg, 0)
  /\ \A k \in 1 .. Len(ops) :
       (k <= 6 /\ ops[k].op \in {"sys_page_unmap", "cleanup_unmap"}) =>
         (ops[k - 1].op = "sys_page_map" /\ k - 1 = 5)
  /\ InitStackSucceeded =>
       /\ Len(ops) = 6 => utemp = <<>>
       /\ utemp # <<>> => utemp[1].id # ChildStack.id

\* init_stack has just returned success: the page is the child's alone
C16_Witness ==
  /\ InitStackSucceeded
  /\ Len(ops) = 6
  /\ utemp = <<>>
  /\ argv = <<5>>
  /\ StackComplete(ChildStack)

(***************************************************************************)
(* The pages of the writable segments.                                     *)
(***************************************************************************)
\* the child's writable mappings
WritableMappings ==
  IF ChildExists THEN {m \in child_env.pgdir : HasBit(m.perm, PTE_W)} ELSE {}
\* substrate call k maps a page of a writable segment into the child
IsDataMap(k) ==
  /\ k > 6
  /\ ops[k].op = "sys_page_map"
  /\ ops[k - 1].op # "read_map"

\* C20: every page mapped into the child for a writable segment was
\* allocated at UTEMP in the same iteration and is unmapped from UTEMP
\* before the next page or segment is taken up; the child's writable pages
\* are physical pages of their own, each mapped once, and after a
\* successful spawn nothing is mapped at UTEMP, so none of them is shared
\* with the parent.
C20_DataPagesPrivate ==
  /\ \A k \in 1 .. Len(ops) :
       IsDataMap(k) =>
         /\ \/ ops[k - 1].op = "sys_page_alloc" /\ ops[k - 1].r >= 0
            \/ /\ ops[k - 1].op = "read" /\ ops[k - 1].r >= 0
               /\ ops[k - 2].op = "sys_page_alloc" /\ ops[k - 2].r >= 0
         /\ k < Len(ops) => ops[k + 1].op = "sys_page_unmap"
         /\ (k = Len(ops) /\ ops[k].r >= 0) => sp.pc = "data_unmap"
  /\ \A m1, m2 \in WritableMappings :
       /\ m1.page.kind \in {"anon", "stack"}
       /\ m1.page.id = m2.page.id => m1 = m2
  /\ sp.pc \in {"read_map", "seek", "page_alloc", "set_trapframe", "set_status"} =>
       utemp = <<>>
  /\ SpawnSucceeded => utemp = <<>>
  /\ (utemp # <<>> /\ sp.pc \in {"data_read", "data_map"}) =>
       \A m \in WritableMappings : m.page.id # utemp[1].id

\* a successful spawn of two writable segments of two pages each
C20_Witness ==
  /\ SpawnSucceeded
  /\ elf_buf.phs = <<SegDataEdge, SegDataMid>>
  /\ Cardinality({m.page.id : m \in WritableMappings}) = 5
  /\ utemp = <<>>

(***************************************************************************)
(* The page argument of ipc_send.                                          *)
(***************************************************************************)
\* C17: every try-send of ipc_send carries the caller's page address when
\* pg is not null and UTOP when it is null, never address 0; a send without
\* a page transfers no page and leaves the permission of the mailbox 0,
\* whatever perm is, and a send with a page to a receiver with a slot
\* transfers it with perm.
C17_TrySendPageOrSentinel ==
  [][\A s \in Senders :
       (spc[s] = "try" /\ spc'[s] # "try") =>
         /\ spc'[s] \in {"yield", "panic"} =>
              /\ try_srcva'[s] = <<IF sargs[s].pg = NULL THEN UTOP ELSE sargs[s].pg>>
              /\ try_srcva'[s][1] # NULL
         /\ spc'[s] = "done" =>
              /\ Len(inflight') = Len(inflight) + 1
              /\ inflight'[Len(inflight')].from = s
              /\ sargs[s].pg = NULL =>
                   /\ inflight'[Len(inflight')].mapped_at = <<>>
                   /\ inflight'[Len(inflight')].perm = 0
                   /\ env'.env_ipc_perm = 0
              /\ (sargs[s].pg # NULL /\ ULt(env.env_ipc_dstva, UTOP)) =>
                   /\ inflight'[Len(inflight')].mapped_at = <<env.env_ipc_dstva>>
                   /\ inflight'[Len(inflight')].perm = sargs[s].perm
                   /\ env'.env_ipc_perm = sargs[s].perm]_vars

\* a value sent without a page but with permission bits was delivered to a
\* receiver that offered a page slot: no page arrived
C17_Witness ==
  /\ impl = "part_001"
  /\ Len(inflight) = 1
  /\ inflight[1].val = W(Pow2(19), 5)
  /\ inflight[1].mapped_at = <<>>
  /\ env.env_ipc_dstva = RSlot
  /\ env.env_ipc_perm = 0
  /\ spc[inflight[1].from] = "done"

(***************************************************************************)
(* runcmd: the dispatch of a line.                                         *)
(***************************************************************************)
\* the whitespace-separated tokens of a line: the maximal runs of characters
\* that are not whitespace, from left to right
TokenSpans(buf) ==
  {s \in (1 .. Len(buf)) \X (1 .. Len(buf)) :
     /\ s[1] <= s[2]
     /\ \A k \in s[1] .. s[2] : buf[k] \notin WHITESPACE
     /\ s[1] = 1 \/ buf[s[1] - 1] \in WHITESPACE
     /\ s[2] = Len(buf) \/ buf[s[2] + 1] \in WHITESPACE}
Tokens(buf) ==
  LET spans == TokenSpans(buf)
      nth(k) == CHOOSE s \in spans : Cardinality({r \in spans : r[1] < s[1]}) = k - 1
  IN [k \in 1 .. Cardinality(spans) |-> SubSeq(buf, nth(k)[1], nth(k)[2])]
\* the table entries with that name
Matching(tok) == {i \in 1 .. NCOMMANDS : commands[i].name = tok}
\* this step is runcmd on the line that was read
RuncmdStep == mon.pc = "runcmd" /\ mon'.pc # "runcmd"
\* runcmd returned in this step (its handler, if any, came back)
RuncmdReturned == RuncmdStep /\ mon'.pc \in {"read", "exited"} /\ mon'.out # "panic"
\* runcmd called the one handler of that name with all the tokens, and what
\* the handler returned is what runcmd returned
DispatchedTo(toks) ==
  /\ mon'.called \in Matching(toks[1])
  /\ Cardinality(Matching(toks[1])) = 1
  /\ mon'.argv = toks
  /\ RuncmdReturned =>
       mon'.ret = CallHandler(commands[mon'.called].func, Len(toks), toks).ret
\* runcmd called no handler and returned 0, with that message
NotDispatched(msg) ==
  /\ mon'.called = 0
  /\ mon'.out = msg
  /\ mon'.ret = 0
  /\ RuncmdReturned
  /\ pp_ref' = pp_ref /\ page_free_list' = page_free_list

\* C18: for every line with at least one token, runcmd calls exactly the
\* handler of the table entry whose name is the first token, with all the
\* tokens, and returns what the handler returns; with no such entry it calls
\* no handler, reports an unknown command and returns 0; for an empty or
\* all-whitespace line it calls no handler and returns 0.
C18_EveryLineDispatched ==
  [][RuncmdStep =>
       LET toks == Tokens(mon.buf)
       IN /\ (toks # <<>> /\ Matching(toks[1]) # {}) => DispatchedTo(toks)
          /\ (toks # <<>> /\ Matching(toks[1]) = {}) => NotDispatched("unknown_command")
          /\ toks = <<>> => NotDispatched("")]_vars

\* C18: the same for every line of at most MAXARGS - 1 tokens; for a line of
\* more tokens runcmd calls no handler, reports too many arguments and
\* returns 0, whatever the first token is.
C18_ShortLineDispatched ==
  [][RuncmdStep =>
       LET toks == Tokens(mon.buf)
       IN /\ (Len(toks) \in 1 .. MAXARGS - 1 /\ Matching(toks[1]) # {}) => DispatchedTo(toks)
          /\ (Len(toks) \in 1 .. MAXARGS - 1 /\ Matching(toks[1]) = {})
               => NotDispatched("unknown_command")
          /\ Len(toks) > MAXARGS - 1 => NotDispatched("too_many_arguments")
          /\ toks = <<>> => NotDispatched("")]_vars

\* a line of MAXARGS - 1 tokens whose first is "help" went to mon_help with
\* all of them, and runcmd returned its 0
C18_Witness ==
  /\ mon.pc = "read"
  /\ mon.got = "line"
  /\ mon.buf = LineFifteen
  /\ mon.called = 1
  /\ Len(mon.argv) = MAXARGS - 1
  /\ mon.argv[1] = commands[1].name
  /\ mon.ret = 0

\* a line of MAXARGS tokens whose first token is "help" was refused
C18_RefusedWitness ==
  /\ mon.pc = "read"
  /\ mon.buf = LineSixteen
  /\ mon.called = 0
  /\ mon.out = "too_many_arguments"

(***************************************************************************)
(* monitor: the read-dispatch loop.                                        *)
(***************************************************************************)
\* the results a handler may give that the loop test tells apart
SomeResults == -2 .. 2
\* readline gave NULL in this step
NullLineStep == mon.pc = "read" /\ mon'.got = "null"

\* C19: the monitor leaves its loop only after a handler returned a negative
\* value; after a null line and after every line for which runcmd returns 0
\* (unknown command, empty line, too many arguments, malformed arguments, a
\* handler returning 0) it reads another line; every handler of the built-in
\* table returns 0, so the monitor never leaves the loop.
C19_MonitorNeverExits ==
  [][/\ \A r \in SomeResults : (MonitorAfter(r) = "exited") <=> (r < 0)
     /\ mon'.pc = "exited" => (RuncmdReturned /\ mon'.called # 0 /\ mon'.ret < 0)
     /\ RuncmdReturned => (mon'.ret = 0 /\ mon'.pc = "read")
     /\ NullLineStep => mon'.pc = "read"
     /\ mon'.pc # "exited"]_vars

\* after a page was allocated, free_page without an address printed its usage
\* and returned 0, and the monitor is reading the next line
C19_Witness ==
  /\ mon.pc = "read"
  /\ mon.got = "line"
  /\ mon.buf = LineFreeNoArgs
  /\ mon.called = 6
  /\ mon.out = "usage"
  /\ mon.ret = 0
  /\ pp_ref[NPages - 1] = 1
  /\ ~mon.panicked

(***************************************************************************)
(* init_stack: where it writes and what it stores.                         *)
(***************************************************************************)
\* init_stack went past its size check (substrate call 4 of spawn is its
\* sys_page_alloc)
PassedFitCheck == ChildExists /\ (sp.pc = "stack_alloc" \/ Len(ops) >= 4)
\* the parent addresses init_stack stores through, as first and last byte:
\* the strings with their terminators, the argc + 1 slots of the array, the
\* argv word and the argc word
WrittenThrough(av) ==
  {<<StringAt(av, i), WAdd(StringAt(av, i), av[i])>> : i \in 1 .. Len(av)}
    \cup {<<WAdd(ArgvStore(av), 4 * i), WAdd(ArgvStore(av), 4 * i + 3)>> :
            i \in (0 - 2) .. Len(av)}
\* the parent addresses whose child address init_stack stores, with the
\* page offset of the word it stores each in
StoredPointers(av) ==
  {<<StringAt(av, i), PGOFF(ArgvStore(av)) + 4 * (i - 1)>> : i \in 1 .. Len(av)}
    \cup {<<ArgvStore(av), PGOFF(ArgvStore(av)) - 4>>}
\* the address is in the child's stack page
InChildStack(a) == a.hi = USTACKTOP.hi - 1
\* the parent address plus (USTACKTOP - PGSIZE) - UTEMP, modulo 2^32
PlusStackOffset(a) == W((a.hi + (USTACKTOP.hi - 1 - UTEMP.hi)) % Pow2(20), a.lo)
\* init_stack has made its stores (substrate call 5 of spawn is its
\* sys_page_map)
StackWritten == sp.pc = "stack_map" \/ Len(ops) >= 5
\* what init_stack wrote is inside the scratch page and child-valid
WritesAndPointersValid(av) ==
  /\ \A w \in WrittenThrough(av) : InScratch(w[1]) /\ InScratch(w[2]) /\ ~ULt(w[2], w[1])
  /\ \A s \in StoredPointers(av) :
       /\ InChildStack(StackWords(av)[s[2]])
       /\ StackWords(av)[s[2]] = PlusStackOffset(s[1])
  /\ InChildStack(InitEsp(av))
  /\ InitEsp(av) = PlusStackOffset(WAdd(ArgvStore(av), 0 - 8))
  /\ StackWritten => sp.child_tf.tf_esp = InitEsp(av)
  /\ (utemp # <<>> /\ sp.pc \in {"stack_map", "stack_unmap", "stack_error"}) =>
       utemp[1].words = StackWords(av)

\* C21: whenever init_stack passes its fit check, every address it writes
\* through lies in the scratch page [UTEMP, UTEMP + PGSIZE), every pointer it
\* stores and the stack pointer it returns lie in the child's stack page, and
\* each is the parent address plus (USTACKTOP - PGSIZE) - UTEMP.
C21_WritesStayInScratchPage ==
  PassedFitCheck => WritesAndPointersValid(argv)

\* the same for arguments that do fit in the page
C21_FittingWritesStayInScratchPage ==
  (PassedFitCheck /\ ArgsFit) => WritesAndPointersValid(argv)

\* the longest single string that fits was written and the page handed over
C21_FittingWitness ==
  /\ PassedFitCheck
  /\ argv = <<PGSIZE - 17>>
  /\ InitStackSucceeded
  /\ sp.child_tf.tf_esp = W(USTACKTOP.hi - 1, 0)

(***************************************************************************)
(* init_stack: its error path.                                             *)
(***************************************************************************)
\* substrate call k of spawn was that call and failed
FailedAt(k, name) == Len(ops) >= k /\ ops[k].op = name /\ ops[k].r < 0
\* after the failure of call k, init_stack unmapped the scratch address and
\* returned the error of call k, whatever the unmap returned
CleanedUpAfter(k) ==
  \/ sp.pc = "stack_error" /\ Len(ops) = k /\ sp.r = ops[k].r
  \/ /\ SpawnReturned
     /\ Len(ops) = k + 1
     /\ ops[k + 1].op = "cleanup_unmap"
     /\ sp.ret = <<ops[k].r>>

\* C22: when mapping the stack page into the child fails or unmapping it
\* from the parent fails, init_stack unmaps the scratch address UTEMP and
\* returns the error of the failed step, not the result of the cleanup;
\* when the page allocation fails it returns that error with no cleanup.
C22_StackErrorPath ==
  /\ FailedAt(5, "sys_page_map") => CleanedUpAfter(5)
  /\ FailedAt(6, "sys_page_unmap") => CleanedUpAfter(6)
  /\ FailedAt(4, "sys_page_alloc") =>
       /\ SpawnReturned
       /\ Len(ops) = 4
       /\ sp.ret = <<ops[4].r>>
       /\ utemp = <<>>

\* the map into the child failed with -E_INVAL, the cleanup unmap failed
\* with -E_NO_MEM, and -E_INVAL was returned
C22_Witness ==
  /\ FailedAt(5, "sys_page_map")
  /\ ops[5].r = 0 - E_INVAL
  /\ SpawnReturned
  /\ Len(ops) = 6
  /\ ops[6] = [op |-> "cleanup_unmap", r |-> 0 - E_NO_MEM]
  /\ sp.ret = <<0 - E_INVAL>>

(***************************************************************************)
(* ipc_recv: the returned value and the error returns.                     *)
(***************************************************************************)
\* ipc_recv returned
RecvReturned == rpc = "done" /\ rret # <<>>
\* the caller's test for an error return
TakenForError == rret[1] < 0

\* C23: ipc_recv returns a negative value only when the blocking receive
\* failed: for every 32-bit payload, also with the top bit set, a successful
\* ipc_recv returns the payload and the caller cannot take it for an error.
C23_NegativeOnlyOnFailure ==
  RecvReturned =>
    /\ TakenForError <=> rerr < 0
    /\ ~(rerr < 0) => (Len(inflight) = 1 /\ ToUint32(rret[1]) = inflight[1].val)

\* the same for payloads below 2^31
C23_SmallPayloadNotMistaken ==
  (RecvReturned /\ (rerr < 0 \/ (Len(inflight) = 1 /\ inflight[1].val.hi < Pow2(19)))) =>
    /\ TakenForError <=> rerr < 0
    /\ ~(rerr < 0) => (Len(inflight) = 1 /\ ToUint32(rret[1]) = inflight[1].val)

\* the payload 0x80000005 was received and returned as a negative int32_t
C23_MistakenWitness ==
  /\ RecvReturned
  /\ ~(rerr < 0)
  /\ inflight[1].val = W(Pow2(19), 5)
  /\ TakenForError

(***************************************************************************)
(* ipc_send: several senders.                                              *)
(***************************************************************************)
\* C24: with two or more senders in ipc_send to a receiver that enters the
\* receiving state again and again, under a weakly fair scheduler every
\* sender's ipc_send eventually returns: no sender is starved by the others
\* winning every receive window.
C24_NoSenderStarved ==
  []<>(env.env_ipc_recving) =>
    \A s \in Senders : (InSend(s) /\ ValidSend(sargs[s])) ~> (spc[s] = "done")

\* two senders are in ipc_send with arguments the kernel accepts while the
\* receiver waits: one of them wins this window
C24_RaceWitness ==
  /\ env.env_ipc_recving
  /\ \A s \in {1, 2} : spc[s] = "try" /\ ValidSend(sargs[s])

(***************************************************************************)
(* mon_showmappings: the loop over the range.                              *)
(***************************************************************************)
\* runcmd called mon_showmappings with two addresses
ShowCalled == mon.got = "line" /\ mon.pc # "runcmd" /\ mon.called = 4 /\ Len(mon.argv) = 3
\* the rounded addresses of that call
ShowLow == WRoundDownPg(strtol(mon.argv[2]))
ShowHigh == WRoundUpPg(strtol(mon.argv[3]))
TopPage == Pow2(20) - 1

\* C25: for arguments whose rounded high address is not below the rounded
\* low address, mon_showmappings terminates after one line per page of
\* [ROUNDDOWN(low), ROUNDUP(high)); its loop counter does not wrap around and
\* the loop does not run forever when the range reaches the top page.
C25_ShowmappingsTerminates ==
  (ShowCalled /\ ~ULt(ShowHigh, ShowLow)) =>
    /\ mon.pc = "read"
    /\ mon.out = "mappings"
    /\ mon.n = ShowHigh.hi - ShowLow.hi

\* what the loop does: below the top page it prints one line for each page
\* from ROUNDDOWN(low) to ROUNDUP(high), both included, and returns; with
\* ROUNDUP(high) in the top page it never returns
C25_ShowmappingsInclusive ==
  (ShowCalled /\ ~ULt(ShowHigh, ShowLow)) =>
    /\ ShowHigh.hi # TopPage =>
         (mon.pc = "read" /\ mon.out = "mappings" /\ mon.n = ShowHigh.hi - ShowLow.hi + 1)
    /\ ShowHigh.hi = TopPage => mon.pc = "running"

\* showmappings of the top page alone never came back
C25_RunningWitness ==
  /\ ShowCalled
  /\ mon.buf = LineShowWrap
  /\ ShowLow = W(TopPage, 0) /\ ShowHigh = W(TopPage, 0)
  /\ mon.pc = "running"

\* showmappings 0x1234 0x2001 printed the three pages 0x1000, 0x2000, 0x3000
C25_InclusiveWitness ==
  /\ ShowCalled
  /\ mon.buf = LineShowOdd
  /\ ShowLow = W(1, 0) /\ ShowHigh = W(3, 0)
  /\ mon.pc = "read" /\ mon.n = 3

(***************************************************************************)
(* alloc_page, free_page and page_status.                                  *)
(***************************************************************************)
\* the pages on the free list
FreePages(list) == {list[k] : k \in 1 .. Len(list)}
\* the free list holds no page twice, only pages without a reference, and
\* no count is negative
AllocatorSound(ref, list) ==
  /\ \A j, k \in 1 .. Len(list) : list[j] = list[k] => j = k
  /\ \A p \in FreePages(list) : p \in Pages /\ ref[p] = 0
  /\ \A p \in Pages : ref[p] >= 0
\* runcmd called handler h in this step, and it came back
Handled(h) == RuncmdReturned /\ mon'.called = h
\* the page a free_page or page_status command names
NamedPage == PPN(strtol(mon'.argv[2]))

\* C26: free_page releases a page only when its count is exactly 1 and
\* otherwise changes nothing, so no page is freed twice and no count drops
\* below zero; the page alloc_page returns has count 1; page_status reports
\* a page allocated from then until a free_page of it has succeeded, and
\* free from then on, when a second free_page of it fails.
C26_PageCommands ==
  [][/\ AllocatorSound(pp_ref, page_free_list) /\ AllocatorSound(pp_ref', page_free_list')
     /\ (Handled(6) /\ Len(mon'.argv) = 2) =>
          IF pp_ref[NamedPage] = 1
          THEN /\ mon'.out = "free_successfully"
               /\ pp_ref' = [pp_ref EXCEPT ![NamedPage] = 0]
               /\ FreePages(page_free_list') = FreePages(page_free_list) \cup {NamedPage}
          ELSE /\ mon'.out = "free_failed"
               /\ pp_ref' = pp_ref /\ page_free_list' = page_free_list
     /\ Handled(5) =>
          IF page_free_list = <<>>
          THEN mon'.out = "allocate_failed" /\ pp_ref' = pp_ref /\ page_free_list' = <<>>
          ELSE /\ mon'.out = "allocated_at"
               /\ mon'.n \in FreePages(page_free_list)
               /\ FreePages(page_free_list') = FreePages(page_free_list) \ {mon'.n}
               /\ pp_ref' = [pp_ref EXCEPT ![mon'.n] = 1]
     /\ (Handled(7) /\ Len(mon'.argv) = 2) =>
          /\ mon'.out = (IF pp_ref[NamedPage] > 0 THEN "allocated" ELSE "free")
          /\ pp_ref' = pp_ref /\ page_free_list' = page_free_list
     /\ \A p \in Pages :
          /\ (pp_ref[p] > 0 /\ pp_ref'[p] # pp_ref[p]) =>
               (Handled(6) /\ NamedPage = p /\ mon'.out = "free_successfully" /\ pp_ref'[p] = 0)
          /\ (pp_ref[p] = 0 /\ pp_ref'[p] # 0) =>
               (Handled(5) /\ mon'.n = p /\ mon'.out = "allocated_at")]_vars

\* page 1 was allocated and freed again while another page stays allocated,
\* and a second free_page of it has failed
C26_Witness ==
  /\ mon.pc = "read"
  /\ mon.called = 6
  /\ Len(mon.argv) = 2 /\ PPN(strtol(mon.argv[2])) = 1
  /\ mon.out = "free_failed"
  /\ pp_ref[1] = 0
  /\ page_free_list # <<>> /\ page_free_list[1] = 1
  /\ Len(page_free_list) < NPages - 1
  /\ pp_ref[NPages - 1] = 1

==========================================================================
